---- MODULE Spec2Model ----
(***************************************************************************)
(* A model of fbuild's call-memoization database: the dirtiness detector   *)
(* of lib/fbuild/db/backend.py (Backend.prepare, Backend.cache and their   *)
(* helpers), the storage primitives it is written against, and the         *)
(* memoizing wrapper that drives them, running against a file system       *)
(* whose files change over time.                                           *)
(***************************************************************************)
EXTENDS Integers, Sequences, FiniteSets, TLC

\* ------------------------------------------------------------------------
\* Bounds of the model.

MaxTime == 2            \* the clock runs from 0 to MaxTime seconds
MaxCallId == 2          \* call ids handed out are 0 .. MaxCallId - 1
MaxEdits == 2           \* files are written or removed at most MaxEdits times
MaxInvocations == 3     \* memoized calls started in one behaviour

\* ------------------------------------------------------------------------
\* Values.

None == -1                               \* Python's None / "absent"
NoDigest == "none"                       \* find_function found no record
FunNames == {"compile"}
FunDigests == {"v1", "v2"}               \* digests of the function's body
Bounds == {"x", "y"}                     \* canonical bound arguments
SrcPaths == {"a.c", "h.h"}
DstPaths == {"a.o"}
Paths == SrcPaths \cup DstPaths
Contents == {1, 2}                       \* file contents (byte strings)

\* The declared sources and destinations are parameters of the call, so the
\* bound arguments determine them.
SrcsOf(bound) == IF bound = "x" THEN <<"a.c">> ELSE <<>>
DstsOf(bound) == <<>>

\* The files a call's body discovers and registers while it runs, when it
\* registers any: call "x" compiles a.c, which may include h.h; call "y"
\* declares nothing and finds its inputs and its output by itself.
ExtSrcsOf(bound) == IF bound = "x" THEN {"h.h"} ELSE {"a.c", "h.h"}
ExtDstsOf(bound) == IF bound = "x" THEN {} ELSE {"a.o"}

\* fbuild.path.Path.digest: a content hash, taken to be collision free.
Digest(content) == 10 + content

\* add_file trusts an unchanged mtime only when it is older than this.
FastPathAge == 1

VARIABLES
    now,             \* time.time(), in seconds
    fs,              \* the file system: path -> [exists, content, mtime]
    curDigest,       \* the digest of the function's body in this run
    files,           \* file table: path -> [mtime, digest] (None: no record)
    functions,       \* function table: name -> digest (NoDigest: no record)
    calls,           \* call table: records [fun, id, bound, result]
    call_files,      \* call-file table: records [fun, id, file, digest]
    external_srcs,   \* external sources: records [fun, id, file]
    external_dsts,   \* external destinations: records [fun, id, file]
    nextId,          \* the next call id the backend hands out
    inv,             \* per thread: its memoized call in flight, or its last
    edits,           \* the number of file edits so far
    edited_at,       \* the time of the last file edit
    started,         \* the number of memoized calls started so far
    obs,             \* per path: the last answers of add_file for the file
    db_lock,         \* the thread holding the database's mutex, or 0
    job,             \* per thread: how far its Backend.cache has come
    path_lock,       \* per path: the observer holding the path, or 0
    ob,              \* per observer: how far its Backend.add_file has come
    state_file,      \* the state file under the buildroot
    run,             \* the run of the build: its options and how far it is
    handler,         \* the handler installed for SIGINT
    drv,             \* bin/fbuild.py: main's options, database and progress
    exe,             \* Context.execute: the command, its process, its end
    sch,             \* fbuild.scheduler: the thunks, the queue, the workers
    dm,              \* map_with_dependencies: the call and its items
    bld              \* the C builder: _build_link and build_objects

vars == <<now, fs, curDigest, files, functions, calls, call_files,
          external_srcs, external_dsts, nextId, inv, edits, edited_at,
          started, obs, db_lock, job, path_lock, ob, state_file, run,
          handler, drv, exe, sch, dm, bld>>

\* The state file, the run and its SIGINT handler.
ctxvars == <<state_file, run, handler>>

\* The driver of bin/fbuild.py, the command Context.execute runs, the
\* scheduler and the C builder.
sidevars == <<drv, exe, sch, dm, bld>>

\* The state kept beside the memoized calls of one run.
auxvars == <<obs, db_lock, job, path_lock, ob, ctxvars, sidevars>>

\* The call tables.
dbvars == <<functions, calls, call_files, external_srcs, external_dsts,
            nextId>>

\* The build: its files, its tables, its calls and its runs.
corevars == <<now, fs, curDigest, files, dbvars, inv, edits, edited_at,
              started, obs, db_lock, job, path_lock, ob, ctxvars>>

NoFile == [mtime |-> None, digest |-> None]
Missing == [exists |-> FALSE, content |-> 0, mtime |-> 0]

\* The four call tables (and the id counter) as one value.
Tables ==
    [functions |-> functions, calls |-> calls, call_files |-> call_files,
     external_srcs |-> external_srcs, external_dsts |-> external_dsts,
     nextId |-> nextId]

EmptyTables ==
    [functions |-> [f \in FunNames |-> NoDigest], calls |-> {},
     call_files |-> {}, external_srcs |-> {}, external_dsts |-> {},
     nextId |-> 0]

\* ------------------------------------------------------------------------
\* The storage primitives Backend leaves to its engines (backend.py declares
\* them and raises NotImplementedError), after the contract of the backend.

\* find_file: the file's old (mtime, digest), (None, None) without a record.
find_file(F, file_name) == F[file_name]

\* save_file: insert or update the file.
save_file(F, file_name, mtime, digest) ==
    [F EXCEPT ![file_name] = [mtime |-> mtime, digest |-> digest]]

\* delete_file: remove the file from the table.
delete_file(F, file_name) == [F EXCEPT ![file_name] = NoFile]

\* find_function: the recorded digest of the function, or NoDigest.
find_function(T, fun_name) == T.functions[fun_name]

\* delete_function: forget the function and every call, call-file and
\* external-deps record of that function name.
delete_function(T, fun_name) ==
    [T EXCEPT !.functions = [@ EXCEPT ![fun_name] = NoDigest],
              !.calls = {r \in @ : r.fun # fun_name},
              !.call_files = {r \in @ : r.fun # fun_name},
              !.external_srcs = {r \in @ : r.fun # fun_name},
              !.external_dsts = {r \in @ : r.fun # fun_name}]

\* save_function: overwrite the digest; when it differs from the previous
\* one, first delete every record attached to the function name.
save_function(T, fun_name, digest) ==
    LET T1 == IF find_function(T, fun_name) # digest
              THEN delete_function(T, fun_name)
              ELSE T
    IN  [T1 EXCEPT !.functions = [@ EXCEPT ![fun_name] = digest]]

\* The least element of a non-empty set of integers.
Least(S) == CHOOSE i \in S : \A j \in S : i <= j

\* find_call: (call_id, result) of the call recorded for (function, bound),
\* (None, None) when there is none.
find_call(T, fun_name, bound) ==
    LET found == {r \in T.calls : r.fun = fun_name /\ r.bound = bound}
    IN  IF found = {}
        THEN [call_id |-> None, result |-> NoDigest]
        ELSE LET r == CHOOSE q \in found :
                          q.id = Least({k.id : k \in found})
             IN  [call_id |-> r.id, result |-> r.result]

\* save_call: insert or update the call; a call without a prior call id
\* gets a new one.  Returns the tables and the final call id.
save_call(T, fun_name, call_id, bound, result) ==
    LET id == IF call_id = None THEN T.nextId ELSE call_id
        rec == [fun |-> fun_name, id |-> id, bound |-> bound,
                result |-> result]
    IN  [T |-> [T EXCEPT
                  !.calls = {r \in @ : ~(r.fun = fun_name /\ r.id = id)}
                                \cup {rec},
                  !.nextId = IF call_id = None THEN @ + 1 ELSE @],
         call_id |-> id]

\* find_call_file: the digest the file had the last time the call was
\* recorded, or None.
find_call_file(T, call_id, fun_name, file_name) ==
    LET found == {r \in T.call_files : r.fun = fun_name /\ r.id = call_id
                                         /\ r.file = file_name}
    IN  IF found = {} THEN None ELSE (CHOOSE r \in found : TRUE).digest

\* save_call_file: insert or update the call file.
save_call_file(T, call_id, fun_name, file_name, digest) ==
    [T EXCEPT !.call_files =
        {r \in @ : ~(r.fun = fun_name /\ r.id = call_id
                       /\ r.file = file_name)}
        \cup {[fun |-> fun_name, id |-> call_id, file |-> file_name,
               digest |-> digest]}]

\* find_external_srcs / find_external_dsts: the externally specified files
\* of the call.
find_external_srcs(T, call_id, fun_name) ==
    {r.file : r \in {q \in T.external_srcs :
                        q.fun = fun_name /\ q.id = call_id}}

find_external_dsts(T, call_id, fun_name) ==
    {r.file : r \in {q \in T.external_dsts :
                        q.fun = fun_name /\ q.id = call_id}}

\* Save every (file, digest) of a set of digests as call files.
RECURSIVE save_digest_set(_, _, _, _)
save_digest_set(T, call_id, fun_name, digests) ==
    IF digests = {} THEN T
    ELSE LET d == CHOOSE e \in digests : TRUE
         IN  save_digest_set(
                 save_call_file(T, call_id, fun_name, d[1], d[2]),
                 call_id, fun_name, digests \ {d})

\* save_external_files: replace the call's external sources and
\* destinations and record the digests of the external sources.
save_external_files(T, fun_name, call_id, srcs, dsts, digests) ==
    LET T1 == [T EXCEPT
                 !.external_srcs =
                     {r \in @ : ~(r.fun = fun_name /\ r.id = call_id)}
                     \cup {[fun |-> fun_name, id |-> call_id, file |-> f]
                             : f \in srcs},
                 !.external_dsts =
                     {r \in @ : ~(r.fun = fun_name /\ r.id = call_id)}
                     \cup {[fun |-> fun_name, id |-> call_id, file |-> f]
                             : f \in dsts}]
    IN  save_digest_set(T1, call_id, fun_name, digests)

\* ------------------------------------------------------------------------
\* Backend (lib/fbuild/db/backend.py).

\* The element of a set of one element; The({e : x \in {v}}) is e where
\* x = v, with v computed once.
The(S) == CHOOSE x \in S : TRUE

\* add_file with a fast path that trusts an equal mtime whatever its age.
add_file_trusting_mtime(F, fsys, time, file_name) ==
    IF ~fsys[file_name].exists
    THEN [err |-> TRUE, dirty |-> FALSE, mtime |-> None, digest |-> None,
          files |-> F, read |-> FALSE]
    ELSE
    LET mtime == fsys[file_name].mtime
        old == find_file(F, file_name)
    IN  IF old.mtime # None /\ mtime = old.mtime
        THEN [err |-> FALSE, dirty |-> FALSE, mtime |-> mtime,
              digest |-> old.digest, files |-> F, read |-> FALSE]
        ELSE
        LET digest == Digest(fsys[file_name].content)
        IN  IF digest = old.digest
            THEN [err |-> FALSE, dirty |-> FALSE, mtime |-> mtime,
                  digest |-> digest,
                  files |-> save_file(F, file_name, mtime, digest),
                  read |-> TRUE]
            ELSE [err |-> FALSE, dirty |-> TRUE, mtime |-> mtime,
                  digest |-> digest,
                  files |-> save_file(delete_file(F, file_name),
                                      file_name, mtime, digest),
                  read |-> TRUE]

\* add_file with a fast path that trusts an equal mtime from the age of
\* FastPathAge on, the boundary included.
add_file_from_one_second(F, fsys, time, file_name) ==
    IF ~fsys[file_name].exists
    THEN [err |-> TRUE, dirty |-> FALSE, mtime |-> None, digest |-> None,
          files |-> F, read |-> FALSE]
    ELSE
    LET mtime == fsys[file_name].mtime
        old == find_file(F, file_name)
    IN  IF old.mtime # None /\ mtime = old.mtime
             /\ time - mtime >= FastPathAge
        THEN [err |-> FALSE, dirty |-> FALSE, mtime |-> mtime,
              digest |-> old.digest, files |-> F, read |-> FALSE]
        ELSE
        LET digest == Digest(fsys[file_name].content)
        IN  IF digest = old.digest
            THEN [err |-> FALSE, dirty |-> FALSE, mtime |-> mtime,
                  digest |-> digest,
                  files |-> save_file(F, file_name, mtime, digest),
                  read |-> TRUE]
            ELSE [err |-> FALSE, dirty |-> TRUE, mtime |-> mtime,
                  digest |-> digest,
                  files |-> save_file(delete_file(F, file_name),
                                      file_name, mtime, digest),
                  read |-> TRUE]

\* add_file that leaves the record of a file alone when the digest it
\* computed is the recorded one.
add_file_keeping_record(F, fsys, time, file_name) ==
    IF ~fsys[file_name].exists
    THEN [err |-> TRUE, dirty |-> FALSE, mtime |-> None, digest |-> None,
          files |-> F, read |-> FALSE]
    ELSE
    LET mtime == fsys[file_name].mtime
        old == find_file(F, file_name)
    IN  IF old.mtime # None /\ mtime = old.mtime
             /\ time - mtime > FastPathAge
        THEN [err |-> FALSE, dirty |-> FALSE, mtime |-> mtime,
              digest |-> old.digest, files |-> F, read |-> FALSE]
        ELSE
        LET digest == Digest(fsys[file_name].content)
        IN  IF digest = old.digest
            THEN [err |-> FALSE, dirty |-> FALSE, mtime |-> mtime,
                  digest |-> digest,
                  files |-> F, read |-> TRUE]
            ELSE [err |-> FALSE, dirty |-> TRUE, mtime |-> mtime,
                  digest |-> digest,
                  files |-> save_file(delete_file(F, file_name),
                                      file_name, mtime, digest),
                  read |-> TRUE]

\* add_file that does not record the digest of a file it found changed.
add_file_forgetting(F, fsys, time, file_name) ==
    IF ~fsys[file_name].exists
    THEN [err |-> TRUE, dirty |-> FALSE, mtime |-> None, digest |-> None,
          files |-> F, read |-> FALSE]
    ELSE
    LET mtime == fsys[file_name].mtime
        old == find_file(F, file_name)
    IN  IF old.mtime # None /\ mtime = old.mtime
             /\ time - mtime > FastPathAge
        THEN [err |-> FALSE, dirty |-> FALSE, mtime |-> mtime,
              digest |-> old.digest, files |-> F, read |-> FALSE]
        ELSE
        LET digest == Digest(fsys[file_name].content)
        IN  IF digest = old.digest
            THEN [err |-> FALSE, dirty |-> FALSE, mtime |-> mtime,
                  digest |-> digest,
                  files |-> save_file(F, file_name, mtime, digest),
                  read |-> TRUE]
            ELSE [err |-> FALSE, dirty |-> TRUE, mtime |-> mtime,
                  digest |-> digest,
                  files |-> F, read |-> TRUE]

\* Backend.add_file: observe a file.  err stands for the OSError of
\* getmtime on a missing file, read for a call of Path.digest, which reads
\* the file.
add_file(F, fsys, time, file_name) ==
    IF ~fsys[file_name].exists
    THEN [err |-> TRUE, dirty |-> FALSE, mtime |-> None, digest |-> None,
          files |-> F, read |-> FALSE]
    ELSE
    LET mtime == fsys[file_name].mtime
        old == find_file(F, file_name)
    IN  IF old.mtime # None /\ mtime = old.mtime
             /\ time - mtime > FastPathAge
        THEN [err |-> FALSE, dirty |-> FALSE, mtime |-> mtime,
              digest |-> old.digest, files |-> F, read |-> FALSE]
        ELSE
        LET digest == Digest(fsys[file_name].content)
        IN  IF digest = old.digest
            THEN [err |-> FALSE, dirty |-> FALSE, mtime |-> mtime,
                  digest |-> digest,
                  files |-> save_file(F, file_name, mtime, digest),
                  read |-> TRUE]
            ELSE [err |-> FALSE, dirty |-> TRUE, mtime |-> mtime,
                  digest |-> digest,
                  files |-> save_file(delete_file(F, file_name),
                                      file_name, mtime, digest),
                  read |-> TRUE]

\* check_call_file without the default of a file that has no record for the
\* call: such a file is dirty only when the observation says it changed.
check_call_file_unrecorded(T, F, fsys, time, call_id, fun_name, file_name) ==
    The({
        IF a.err
        THEN [err |-> TRUE, dirty |-> FALSE, digest |-> None, files |-> F]
        ELSE IF call_id = None
        THEN [a EXCEPT !.dirty = TRUE]
        ELSE
        LET old_digest == find_call_file(T, call_id, fun_name, file_name)
        IN  IF old_digest = None \/ a.digest = old_digest
            THEN a
            ELSE [a EXCEPT !.dirty = TRUE]
        : a \in {add_file(F, fsys, time, file_name)}})

\* check_call_file that goes by the observation alone, whatever digest the
\* call has on record.
check_call_file_by_observation(T, F, fsys, time, call_id, fun_name, file_name) ==
    The({
        IF a.err
        THEN [err |-> TRUE, dirty |-> FALSE, digest |-> None, files |-> F]
        ELSE IF call_id = None
        THEN [a EXCEPT !.dirty = TRUE]
        ELSE a
        : a \in {add_file(F, fsys, time, file_name)}})

\* check_call_file that reports a file that cannot be stat'd as dirty
\* instead of raising.
check_call_file_missing_is_dirty(T, F, fsys, time, call_id, fun_name, file_name) ==
    The({
        IF a.err
        THEN [err |-> FALSE, dirty |-> TRUE, digest |-> None, files |-> F]
        ELSE IF call_id = None
        THEN [a EXCEPT !.dirty = TRUE]
        ELSE
        LET old_digest == find_call_file(T, call_id, fun_name, file_name)
        IN  IF old_digest # None /\ a.digest = old_digest
            THEN a
            ELSE [a EXCEPT !.dirty = TRUE]
        : a \in {add_file(F, fsys, time, file_name)}})

\* Backend.check_call_file: is the call file dirty, and the file's digest
\* (with the mtime add_file read and the file table it left).
check_call_file(T, F, fsys, time, call_id, fun_name, file_name) ==
    The({
        IF a.err
        THEN [err |-> TRUE, dirty |-> FALSE, digest |-> None, files |-> F]
        ELSE IF call_id = None
        THEN [a EXCEPT !.dirty = TRUE]
        ELSE
        LET old_digest == find_call_file(T, call_id, fun_name, file_name)
        IN  IF old_digest # None /\ a.digest = old_digest
            THEN a
            ELSE [a EXCEPT !.dirty = TRUE]
        : a \in {add_file(F, fsys, time, file_name)}})

\* Backend.check_call_files: the dirty call files among file_names, in
\* order.  A missing file raises out of the loop (err); the file table keeps
\* what the files before it wrote.  observed lists every file's digest.
RECURSIVE check_call_files_from(_, _, _, _, _, _, _, _, _, _)
check_call_files_from(T, F, fsys, time, call_id, fun_name, file_names, i, digests, observed) ==
    IF i > Len(file_names)
    THEN [err |-> FALSE, digests |-> digests, observed |-> observed,
          files |-> F]
    ELSE
    The({
        IF c.err
        THEN [err |-> TRUE, digests |-> digests, observed |-> observed,
              files |-> F]
        ELSE check_call_files_from(T, c.files, fsys, time, call_id,
                 fun_name, file_names, i + 1,
                 IF c.dirty
                 THEN Append(digests, <<file_names[i], c.digest>>)
                 ELSE digests,
                 Append(observed, <<file_names[i], c.digest>>))
        : c \in {check_call_file(T, F, fsys, time, call_id, fun_name,
                                 file_names[i])}})

check_call_files(T, F, fsys, time, call_id, fun_name, file_names) ==
    check_call_files_from(T, F, fsys, time, call_id, fun_name, file_names,
                          1, <<>>, <<>>)

\* Backend.save_call_files: insert or update the call files.
RECURSIVE save_call_files_from(_, _, _, _, _)
save_call_files_from(T, call_id, fun_name, digests, i) ==
    IF i > Len(digests) THEN T
    ELSE save_call_files_from(
             save_call_file(T, call_id, fun_name, digests[i][1],
                            digests[i][2]),
             call_id, fun_name, digests, i + 1)

save_call_files(T, call_id, fun_name, digests) ==
    save_call_files_from(T, call_id, fun_name, digests, 1)

\* The loop over the external sources, left at the first source that cannot
\* be stat'd.
RECURSIVE check_external_loop_aborting(_, _, _, _, _, _, _, _, _)
check_external_loop_aborting(T, F, fsys, time, call_id, fun_name, todo, external_dirty, digests) ==
    IF todo = {}
    THEN [external_dirty |-> external_dirty, digests |-> digests,
          files |-> F]
    ELSE
    LET src == CHOOSE s \in todo : TRUE IN
    The({
        IF c.err
        THEN [external_dirty |-> TRUE, digests |-> digests, files |-> F]
        ELSE check_external_loop_aborting(T, c.files, fsys, time, call_id,
                 fun_name, todo \ {src}, external_dirty,
                 IF c.dirty THEN digests \cup {<<src, c.digest>>}
                 ELSE digests)
        : c \in {check_call_file(T, F, fsys, time, call_id, fun_name,
                                 src)}})

\* The loop of Backend.check_external_files over the external sources.
RECURSIVE check_external_loop(_, _, _, _, _, _, _, _, _)
check_external_loop(T, F, fsys, time, call_id, fun_name, todo, external_dirty, digests) ==
    IF todo = {}
    THEN [external_dirty |-> external_dirty, digests |-> digests,
          files |-> F]
    ELSE
    LET src == CHOOSE s \in todo : TRUE IN
    The({
        IF c.err
        THEN check_external_loop(T, F, fsys, time, call_id, fun_name,
                 todo \ {src}, TRUE, digests)
        ELSE check_external_loop(T, c.files, fsys, time, call_id, fun_name,
                 todo \ {src}, external_dirty,
                 IF c.dirty THEN digests \cup {<<src, c.digest>>}
                 ELSE digests)
        : c \in {check_call_file(T, F, fsys, time, call_id, fun_name,
                                 src)}})

\* check_external_files that looks at no external source.
check_external_files_unchecked(T, F, fsys, time, call_id, fun_name) ==
    [external_dirty |-> FALSE,
     srcs |-> find_external_srcs(T, call_id, fun_name),
     dsts |-> find_external_dsts(T, call_id, fun_name),
     digests |-> {}, files |-> F]

\* check_external_files that checks the external destinations like the
\* external sources.
check_external_files_checking_dsts(T, F, fsys, time, call_id, fun_name) ==
    The({
        [external_dirty |-> l.external_dirty,
         srcs |-> find_external_srcs(T, call_id, fun_name),
         dsts |-> find_external_dsts(T, call_id, fun_name),
         digests |-> l.digests, files |-> l.files]
        : l \in {check_external_loop(T, F, fsys, time, call_id, fun_name,
                     find_external_srcs(T, call_id, fun_name)
                         \cup find_external_dsts(T, call_id, fun_name),
                     FALSE, {})}})

\* Backend.check_external_files: the externally specified files of the
\* call and the dirty ones among its sources.
check_external_files(T, F, fsys, time, call_id, fun_name) ==
    The({
        [external_dirty |-> l.external_dirty,
         srcs |-> find_external_srcs(T, call_id, fun_name),
         dsts |-> find_external_dsts(T, call_id, fun_name),
         digests |-> l.digests, files |-> l.files]
        : l \in {check_external_loop(T, F, fsys, time, call_id, fun_name,
                     find_external_srcs(T, call_id, fun_name),
                     FALSE, {})}})

\* check_function that takes any recorded digest for the current one.
check_function_recorded(T, fun_name, fun_digest) ==
    find_function(T, fun_name) = NoDigest

\* Backend.check_function: is the function dirty.
check_function(T, fun_name, fun_digest) ==
    LET old_digest == find_function(T, fun_name)
    IN  old_digest = NoDigest \/ fun_digest # old_digest

\* The tuple of prepare with the result of the recorded call left out.
prepare_tuple_without_result(fun_dirty, c, cf, ex) ==
    [err |-> FALSE, fun_dirty |-> fun_dirty, call_id |-> c.call_id,
     old_result |-> NoDigest, call_file_digests |-> cf.digests,
     external_dirty |-> ex.external_dirty,
     external_srcs |-> ex.srcs, external_dsts |-> ex.dsts,
     external_digests |-> ex.digests,
     observed |-> cf.observed, files |-> ex.files]

\* The tuple prepare returns, of its parts: the call found, the check of the
\* declared sources and the check of the external files.
prepare_tuple(fun_dirty, c, cf, ex) ==
    [err |-> FALSE, fun_dirty |-> fun_dirty, call_id |-> c.call_id,
     old_result |-> c.result, call_file_digests |-> cf.digests,
     external_dirty |-> ex.external_dirty,
     external_srcs |-> ex.srcs, external_dsts |-> ex.dsts,
     external_digests |-> ex.digests,
     observed |-> cf.observed, files |-> ex.files]

\* Backend.prepare: everything needed to decide on a call.  err: a declared
\* source could not be stat'd and the OSError left prepare.
prepare(T, F, fsys, time, fun_name, fun_digest, bound, srcs, dsts) ==
    LET c == find_call(T, fun_name, bound) IN
    The({
        IF cf.err
        THEN [err |-> TRUE,
              fun_dirty |-> check_function(T, fun_name, fun_digest),
              call_id |-> c.call_id,
              old_result |-> c.result, call_file_digests |-> cf.digests,
              external_dirty |-> FALSE, external_srcs |-> {},
              external_dsts |-> {}, external_digests |-> {},
              observed |-> cf.observed, files |-> cf.files]
        ELSE prepare_tuple(check_function(T, fun_name, fun_digest), c, cf,
                 check_external_files(T, cf.files, fsys, time, c.call_id,
                                      fun_name))
        : cf \in {check_call_files(T, F, fsys, time, c.call_id, fun_name,
                                   srcs)}})

\* Backend.cache: save the function call into the database.
cache(T, fun_dirty, fun_name, fun_digest, call_id, bound, result, call_file_digests, ext_srcs, ext_dsts, ext_digests) ==
    The({
        [T |-> save_external_files(
                   save_call_files(s.T, s.call_id, fun_name,
                                   call_file_digests),
                   fun_name, s.call_id, ext_srcs, ext_dsts, ext_digests),
         call_id |-> s.call_id]
        : s \in {save_call(IF fun_dirty
                           THEN save_function(T, fun_name, fun_digest)
                           ELSE T,
                           fun_name, call_id, bound, result)}})

\* ------------------------------------------------------------------------
\* The memoizing wrapper around a call (fbuild.db: caches / cachemethod and
\* add_external_dependencies_to_call), after the design of the facade.

\* The decision on the tuple prepare returned: a hit needs a clean function,
\* a recorded call, no dirty digest and no unreadable external source.
Hit(p) ==
    /\ ~p.err
    /\ ~p.fun_dirty
    /\ p.call_id # None
    /\ p.call_file_digests = <<>>
    /\ p.external_digests = {}
    /\ ~p.external_dirty

\* What a thread knows of its current (pc = "running") or last
\* (pc = "done") memoized call: the arguments, the tuple prepare returned,
\* how the call ended, and whether a file was edited since prepare.
Idle ==
    [pc |-> "idle", fun |-> "-", bound |-> "-", fun_digest |-> NoDigest,
     fun_dirty |-> FALSE, call_id |-> None, old_result |-> NoDigest,
     call_file_digests |-> <<>>, external_dirty |-> FALSE,
     external_srcs |-> {}, external_dsts |-> {}, external_digests |-> {},
     observed |-> <<>>, pre |-> EmptyTables, touched |-> FALSE,
     outcome |-> "-", result |-> NoDigest, final_id |-> None]

Threads == DOMAIN inv

\* The record of a call that prepare decided to be a miss.
Missed(call, p) ==
    [call EXCEPT
        !.pc = "running",
        !.fun_dirty = p.fun_dirty, !.call_id = p.call_id,
        !.old_result = p.old_result,
        !.call_file_digests = p.call_file_digests,
        !.external_dirty = p.external_dirty,
        !.external_srcs = p.external_srcs,
        !.external_dsts = p.external_dsts,
        !.external_digests = p.external_digests,
        !.observed = p.observed, !.pre = Tables]

\* The record of a call answered from the cache.
Answered(call, p) ==
    [call EXCEPT !.pc = "done", !.outcome = "hit", !.call_id = p.call_id,
                 !.result = p.old_result, !.final_id = p.call_id]

\* A memoized call f(bound) starts, f's body having the digest fun_digest:
\* the wrapper queries the backend and either returns the recorded result
\* (hit), or goes on to run the body (miss), or fails with the OSError of a
\* declared source that cannot be stat'd.  The body of f differs from that
\* of the call before only in a later run of the build script, when no call
\* is in flight.
Invoke(t, fun_name, fun_digest, bound) ==
    /\ inv[t].pc # "running"
    /\ started < MaxInvocations
    /\ started' = started + 1
    /\ fun_digest # curDigest =>
           started > 0 /\ \A u \in Threads : inv[u].pc # "running"
    /\ curDigest' = fun_digest
    /\ \E p \in {prepare(Tables, files, fs, now, fun_name, fun_digest, bound,
                         SrcsOf(bound), DstsOf(bound))} :
       \E call \in {[Idle EXCEPT !.fun = fun_name, !.bound = bound,
                                 !.fun_digest = fun_digest]} :
           /\ files' = p.files
           /\ inv' = [inv EXCEPT ![t] =
                  IF p.err
                  THEN [call EXCEPT !.pc = "done", !.outcome = "error"]
                  ELSE IF Hit(p)
                  THEN Answered(call, p)
                  ELSE Missed(call, p)]
    /\ UNCHANGED <<now, fs, dbvars, edits, edited_at>>
    /\ UNCHANGED auxvars

\* add_external_dependencies_to_call(srcs = todo): each source is checked
\* against the call found by prepare and its digest collected when dirty.
\* A source that cannot be stat'd raises (err).
RECURSIVE register_srcs(_, _, _, _, _, _, _, _)
register_srcs(T, F, fsys, time, call_id, fun_name, todo, digests) ==
    IF todo = {}
    THEN [err |-> FALSE, digests |-> digests, files |-> F]
    ELSE
    LET src == CHOOSE s \in todo : TRUE IN
    The({
        IF c.err
        THEN [err |-> TRUE, digests |-> digests, files |-> F]
        ELSE register_srcs(T, c.files, fsys, time, call_id, fun_name,
                           todo \ {src},
                           IF c.dirty THEN digests \cup {<<src, c.digest>>}
                           ELSE digests)
        : c \in {check_call_file(T, F, fsys, time, call_id, fun_name,
                                 src)}})

\* Observe every declared destination, in order.
RECURSIVE observe_dsts(_, _, _, _, _)
observe_dsts(F, fsys, time, dsts, i) ==
    IF i > Len(dsts) THEN F
    ELSE observe_dsts(add_file(F, fsys, time, dsts[i]).files, fsys, time,
                      dsts, i + 1)

\* The body runs to its end: the external dependencies of the previous run
\* are dropped, the body registers the external sources srcs and
\* destinations dsts it discovers, the declared destinations are observed
\* and the call is recorded through Backend.cache.  The result stands for
\* what this version of the function computes.
BodySucceed(t, srcs, dsts) ==
    /\ inv[t].pc = "running"
    /\ \E i \in {inv[t]} :
       \E r \in {register_srcs(Tables, files, fs, now, i.call_id, i.fun,
                               srcs, i.external_digests)} :
       \E c \in {cache(Tables, i.fun_dirty, i.fun, i.fun_digest, i.call_id,
                       i.bound, i.fun_digest, i.call_file_digests,
                       srcs, dsts, r.digests)} :
           /\ ~r.err
           /\ i.call_id = None => nextId < MaxCallId
           /\ files' = observe_dsts(r.files, fs, now, DstsOf(i.bound), 1)
           /\ functions' = c.T.functions
           /\ calls' = c.T.calls
           /\ call_files' = c.T.call_files
           /\ external_srcs' = c.T.external_srcs
           /\ external_dsts' = c.T.external_dsts
           /\ nextId' = c.T.nextId
           /\ inv' = [inv EXCEPT ![t] =
                  [Idle EXCEPT !.pc = "done", !.outcome = "cached",
                               !.fun = i.fun, !.bound = i.bound,
                               !.fun_digest = i.fun_digest,
                               !.observed = i.observed,
                               !.touched = i.touched,
                               !.result = i.fun_digest,
                               !.final_id = c.call_id]]
    /\ UNCHANGED <<now, fs, curDigest, edits, edited_at, started>>
    /\ UNCHANGED auxvars

\* The body raises, after registering the external sources srcs or while
\* registering them: nothing is persisted for the call.
BodyFail(t, srcs) ==
    /\ inv[t].pc = "running"
    /\ files' = register_srcs(Tables, files, fs, now, inv[t].call_id,
                              inv[t].fun, srcs,
                              inv[t].external_digests).files
    /\ inv' = [inv EXCEPT ![t].pc = "done", ![t].outcome = "failed"]
    /\ UNCHANGED <<now, fs, curDigest, dbvars, edits, edited_at, started>>
    /\ UNCHANGED auxvars

\* ------------------------------------------------------------------------
\* The environment: time and the files.

Tick ==
    /\ now < MaxTime
    /\ now' = now + 1
    /\ UNCHANGED <<fs, curDigest, files, dbvars, inv, edits, edited_at,
                   started>>
    /\ UNCHANGED auxvars

\* Every call that is running, or has run its body, has seen a file edited
\* since its prepare step.
Touch == [t \in Threads |->
             IF inv[t].pc = "running" \/ inv[t].outcome \in {"cached", "failed"}
             THEN [inv[t] EXCEPT !.touched = TRUE]
             ELSE inv[t]]

\* A source file is written (or created): its mtime becomes the time of the
\* write.
WriteFile(f, c) ==
    /\ edits < MaxEdits
    /\ edits' = edits + 1
    /\ edited_at' = now
    /\ fs' = [fs EXCEPT ![f] = [exists |-> TRUE, content |-> c,
                                mtime |-> now]]
    /\ fs' # fs
    /\ inv' = Touch
    /\ UNCHANGED <<now, curDigest, files, dbvars, started>>
    /\ UNCHANGED auxvars

\* A source file's content is replaced and its mtime put back.
WriteKeepMtime(f, c) ==
    /\ edits < MaxEdits
    /\ edits' = edits + 1
    /\ edited_at' = now
    /\ fs[f].exists
    /\ fs[f].content # c
    /\ fs' = [fs EXCEPT ![f].content = c]
    /\ inv' = Touch
    /\ UNCHANGED <<now, curDigest, files, dbvars, started>>
    /\ UNCHANGED auxvars

RemoveFile(f) ==
    /\ edits < MaxEdits
    /\ edits' = edits + 1
    /\ edited_at' = now
    /\ fs[f].exists
    /\ fs' = [fs EXCEPT ![f] = Missing]
    /\ inv' = Touch
    /\ UNCHANGED <<now, curDigest, files, dbvars, started>>
    /\ UNCHANGED auxvars

\* ------------------------------------------------------------------------

\* No file has been observed on its own.
NotObserved ==
    [count |-> 0, file |-> Missing, err |-> FALSE, dirty |-> FALSE,
     digest |-> None, read |-> FALSE, prev |-> None]

\* The file table without a record.
NoFiles == [f \in Paths |-> NoFile]

\* The state file: the call tables T and the file table F the database
\* wrote on close, when the file exists.
NoStateFile == [exists |-> FALSE, T |-> EmptyTables, F |-> NoFiles]

\* The first run of the build, on a buildroot without a state file: its
\* database is connected and empty.  phase: "up" while the build runs,
\* "closing" and "restoring" inside save_configuration, "off" after it.
FirstRun ==
    [phase |-> "up", driver |-> "context", n |-> 1, force |-> FALSE,
     loaded |-> FALSE, discarded |-> FALSE, started0 |-> 0,
     prev_handler |-> "-", ignored |-> FALSE, interrupted |-> FALSE,
     raised |-> FALSE, saved |-> FALSE, eligible |-> {},
     fs_at_save |-> [f \in Paths |-> Missing]]

\* The threads that may call Backend.cache and Backend.add_file at once.
Workers == {1, 2}

\* No Backend.cache under way.
NoJob ==
    [step |-> 0, T0 |-> EmptyTables, srcs |-> {}, dsts |-> {},
     digests |-> {}, call_id |-> None, atomic |-> TRUE]

\* No Backend.add_file under way.
NoOb ==
    [pc |-> "idle", file |-> "-", mtime |-> None, old |-> NoFile,
     time |-> 0, digest |-> None, err |-> FALSE, dirty |-> FALSE,
     read |-> FALSE, unchanged |-> FALSE,
     expect |-> NoFile, serial |-> TRUE]

\* ---------------------------------------------------------------------------
\* bin/fbuild.py: main, from the loading of the database to the exit status.
\*
\* fbuild.db.database.__dict__ is a nested dictionary.  It is modelled as the
\* set of its entries: each entry is the path of keys that leads to it and
\* whether the value found there is itself a dictionary.

\* The keys of the configuration.
Keys == {"a", "b"}

\* options.config_query.split() and options.config_remove.split() have at
\* most this many keys.
MaxKeys == 2

KeyLists == UNION {[1..n -> Keys] : n \in 0..MaxKeys}

TopPaths == {<<k>> : k \in Keys}

SubPaths == {<<k, l>> : k \in Keys, l \in Keys}

\* p leads to an entry on the way to q, or to q itself.
IsPrefix(p, q) == Len(p) <= Len(q) /\ SubSeq(q, 1, Len(p)) = p

\* The entry of database T at path p exists.
Has(T, p) == \E e \in T : e.path = p

\* The value of database T at path p is a dictionary.
IsDict(T, p) == p = <<>> \/ \E e \in T : e.path = p /\ e.dict

\* The nested dictionaries of the model: every entry sits in a dictionary.
Databases ==
    {T \in SUBSET ([path : TopPaths, dict : BOOLEAN] \cup
                   [path : SubPaths, dict : {FALSE}]) :
        /\ \A e1 \in T : \A e2 \in T : e1.path = e2.path => e1 = e2
        /\ \A e \in T : Len(e.path) > 1 =>
               IsDict(T, SubSeq(e.path, 1, Len(e.path) - 1)) /\
               Has(T, SubSeq(e.path, 1, Len(e.path) - 1))}

\* d[key], d the value at path ref: a value that is no dictionary cannot
\* be subscripted by a key, a dictionary without the key raises KeyError.
getitem(T, ref, key) ==
    IF ~IsDict(T, ref) THEN [exc |-> "TypeError", ref |-> ref]
    ELSE IF ~Has(T, Append(ref, key)) THEN [exc |-> "KeyError", ref |-> ref]
    ELSE [exc |-> "none", ref |-> Append(ref, key)]

\* for key in keys: d = d[key]
RECURSIVE walk(_, _, _)
walk(T, ref, keys) ==
    IF keys = <<>> THEN [exc |-> "none", ref |-> ref]
    ELSE IF getitem(T, ref, Head(keys)).exc # "none"
         THEN getitem(T, ref, Head(keys))
         ELSE walk(T, getitem(T, ref, Head(keys)).ref, Tail(keys))

\* del d[key] that forgets which dictionary the path has led to and deletes
\* the key from the top of the database.
delitem_at_top(T, ref, key) ==
    IF ~Has(T, <<key>>) THEN [exc |-> "KeyError", database |-> T]
    ELSE [exc |-> "none",
          database |-> {e \in T : ~IsPrefix(<<key>>, e.path)}]

\* del d[key], d the value at path ref: the entry goes with all below it.
delitem(T, ref, key) ==
    IF ~IsDict(T, ref) THEN [exc |-> "TypeError", database |-> T]
    ELSE IF ~Has(T, Append(ref, key))
         THEN [exc |-> "KeyError", database |-> T]
    ELSE [exc |-> "none",
          database |-> {e \in T : ~IsPrefix(Append(ref, key), e.path)}]

\* What a part of main's try block comes to: the exception it raises, or
\* the status it returns, and the database it leaves.
Raised(exc, T) ==
    [exc |-> exc, returned |-> FALSE, status |-> 0, database |-> T]

Returned(status, T) ==
    [exc |-> "none", returned |-> TRUE, status |-> status, database |-> T]

FellThrough(T) ==
    [exc |-> "none", returned |-> FALSE, status |-> 0, database |-> T]

\* if options.config_query: a missing key becomes an fbuild.Error.
config_query(T, keys) ==
    IF walk(T, <<>>, keys).exc = "KeyError" THEN Raised("fbuild.Error", T)
    ELSE IF walk(T, <<>>, keys).exc # "none"
         THEN Raised(walk(T, <<>>, keys).exc, T)
         ELSE Returned(0, T)

\* if options.config_remove: keys[:-1] lead to the dictionary, keys[-1]
\* is deleted from it; a missing key becomes an fbuild.Error.
config_remove(T, keys) ==
    IF keys = <<>> THEN Raised("IndexError", T)
    ELSE LET w == walk(T, <<>>, SubSeq(keys, 1, Len(keys) - 1))
             r == delitem(T, w.ref, keys[Len(keys)])
         IN  IF w.exc = "KeyError" THEN Raised("fbuild.Error", T)
             ELSE IF w.exc # "none" THEN Raised(w.exc, T)
             ELSE IF r.exc = "KeyError" THEN Raised("fbuild.Error", T)
             ELSE IF r.exc # "none" THEN Raised(r.exc, T)
             ELSE Returned(0, r.database)

\* fbuildroot.build(): the build of the user's script fills the database
\* and returns, or raises.
build(outcome, T) ==
    IF outcome = "none" THEN FellThrough(T) ELSE Raised(outcome, T)

BuildOutcomes == {"none", "fbuild.Error", "Exception"}

\* The try block of main.
main_try(options, T, outcome, built) ==
    IF options.config_dump THEN Returned(0, T)
    ELSE IF options.config_query THEN config_query(T, options.keys)
    ELSE IF options.config_remove THEN config_remove(T, options.keys)
    ELSE build(outcome, built)

\* except fbuild.Error that logs the error and returns 0.
main_except_returning_0(r) ==
    IF r.exc = "fbuild.Error"
    THEN [Returned(0, r.database) EXCEPT !.exc = "none"]
    ELSE r

\* except fbuild.Error as e: fbuild.logger.log(e, color='red'); return 1
main_except(r) ==
    IF r.exc = "fbuild.Error" THEN Returned(1, r.database) ELSE r

\* fbuild.db.database.save(options.state_file)
database_save(database) == [exists |-> TRUE, database |-> database]

\* if not options.force_configuration and options.state_file.exists():
\*     fbuild.db.database.load(options.state_file)
database_load(options, state) ==
    IF ~options.force_configuration /\ state.exists
    THEN state.database ELSE {}

\* sys.exit(main()): the status main returns, or 1 when an exception
\* leaves main.
exit_status(d) == IF d.exc # "none" THEN 1 ELSE d.status

Options ==
    {o \in [config_dump : BOOLEAN, config_query : BOOLEAN,
            config_remove : BOOLEAN, force_configuration : BOOLEAN,
            keys : KeyLists] :
        (~o.config_query /\ ~o.config_remove) => o.keys = <<>>}

NoOptions ==
    [config_dump |-> FALSE, config_query |-> FALSE, config_remove |-> FALSE,
     force_configuration |-> FALSE, keys |-> <<>>]

\* The driver before its first run: no state file yet.
NoDriver ==
    [pc |-> "off", options |-> NoOptions, database |-> {}, before |-> {},
     state |-> [exists |-> FALSE, database |-> {}],
     raised |-> "none", exc |-> "none", returned |-> FALSE, status |-> 0,
     saves |-> 0]


\* ---------------------------------------------------------------------------
\* Context.execute: one command, from Popen to the return or the exception.

\* signal.SIGINT
SIGINT == 2

\* The return codes of the process lie between -MaxReturnCode (killed by
\* that signal) and MaxReturnCode.
MaxReturnCode == 4

ReturnCodes == (0 - MaxReturnCode)..MaxReturnCode

\* The end of execute that looks at the return code before the deadline.
execute_end_by_returncode_first(timeout, timed_out, returncode, ignore_error) ==
    IF returncode # 0 /\ ~ignore_error THEN "ExecutionError"
    ELSE IF timeout /\ timed_out THEN "ExecutionTimedOut"
    ELSE "return"

\* if timeout and timed_out: raise fbuild.ExecutionTimedOut(...)
\* elif returncode and not ignore_error: raise fbuild.ExecutionError(...)
\* return stdout, stderr
execute_end(timeout, timed_out, returncode, ignore_error) ==
    IF timeout /\ timed_out THEN "ExecutionTimedOut"
    ELSE IF returncode # 0 /\ ~ignore_error THEN "ExecutionError"
    ELSE "return"

\* No command is executed.
NoCommand ==
    [pc |-> "off", timeout |-> FALSE, ignore_error |-> FALSE,
     spawned |-> FALSE, timer |-> "None", timed_out |-> FALSE,
     killed |-> FALSE, waited |-> FALSE, returncode |-> 0,
     outcome |-> "-", late |-> FALSE, sigint_sent |-> FALSE]

\* An except clause that raises the KeyboardInterrupt again and leaves
\* the process running.
except_KeyboardInterrupt_without_kill(e) ==
    [e EXCEPT !.pc = "done",
              !.timer = IF @ = "started" THEN "cancelled" ELSE @,
              !.outcome = "KeyboardInterrupt"]

\* except KeyboardInterrupt: p.kill(group=True, sigint=True); raise
\* and then finally: timer.cancel()
except_KeyboardInterrupt(e) ==
    [e EXCEPT !.pc = "done", !.killed = TRUE, !.sigint_sent = TRUE,
              !.timer = IF @ = "started" THEN "cancelled" ELSE @,
              !.outcome = "KeyboardInterrupt"]


\* ---------------------------------------------------------------------------
\* fbuild.scheduler: a pool of worker threads and one queue of thunks.
\*
\* A thunk is named by its place: <<>> is the build on the main thread,
\* <<i>> the i-th item of the map the build calls, <<i, j>> the j-th item
\* of the map thunk <<i>> calls.

\* options.threadcount: the number of worker threads.
PoolSize == 2

\* The number of items of a map call.
MaxItems == 2

\* How deep map calls nest.
MaxDepth == 2

Pool == 1..PoolSize

Tasks == UNION {[1..n -> 1..MaxItems] : n \in 0..MaxDepth}

Root == <<>>

Parent(t) == SubSeq(t, 1, Len(t) - 1)

Children(t) == {Append(t, i) : i \in 1..MaxItems}

\* The i-th item of a map call, and the result of f for an item.
item(i) == [src |-> i]

thunk(x) == [obj |-> x.src]

\* No exception, and the exception of the cancel.
NoError == <<0>>

Cancelled == <<0, 0>>

NoTask ==
    [st |-> "none", called |-> FALSE, res |-> thunk(item(0)), err |-> NoError,
     first |-> NoError, order |-> <<>>, got |-> <<>>]

NoSched ==
    [task |-> [t \in Tasks |-> NoTask], queue |-> <<>>,
     stack |-> [w \in Pool |-> <<>>], cancel |-> FALSE, saved |-> FALSE]

\* The queue q without the thunks of D.
RECURSIVE Without(_, _)
Without(q, D) ==
    IF q = <<>> THEN <<>>
    ELSE IF Head(q) \in D THEN Without(Tail(q), D)
    ELSE <<Head(q)>> \o Without(Tail(q), D)

\* The items of the map thunk t has called that have not started.
Unstarted(S, t) == {u \in Children(t) : S.task[u].st = "queued"}

\* The items of the map thunk t has called that are under way.
Underway(S, t) ==
    {u \in Children(t) : S.task[u].st \in {"running", "executing", "waiting"}}

\* map(f, srcs) called by thunk t: one thunk per item joins the queue, in
\* the order of the items, and t waits for them.
map_call(S, t) ==
    [S EXCEPT !.task = [u \in Tasks |->
                           IF u \in Children(t)
                           THEN [NoTask EXCEPT !.st = "queued"]
                           ELSE IF u = t THEN [@[u] EXCEPT !.st = "waiting"]
                           ELSE @[u]],
              !.queue = @ \o [i \in 1..MaxItems |-> Append(t, i)]]

\* The items that have not started are dropped from the queue.
drop(S, D) ==
    [S EXCEPT !.task = [u \in Tasks |->
                           IF u \in D THEN [@[u] EXCEPT !.st = "cancelled"]
                           ELSE @[u]],
              !.queue = Without(@, D)]

\* A failure of an item that leaves the other items in the queue.
fail_keeping_siblings(S, t, e) ==
    [S EXCEPT !.task[Parent(t)].first = IF @ = NoError THEN e ELSE @]

\* An item of a map fails with e: the first failure is the one the map
\* raises, and it cancels the items that have not started.
fail(S, t, e) ==
    IF S.task[Parent(t)].first # NoError THEN S
    ELSE drop([S EXCEPT !.task[Parent(t)].first = e],
              Unstarted(S, Parent(t)))

\* Thunk t is over, with a result or with the exception e; the map that
\* waits for it takes note.
complete(S, t, e) ==
    IF t = Root
    THEN [S EXCEPT !.task[t].st = IF e = NoError THEN "done" ELSE "failed",
                   !.task[t].err = e]
    ELSE \* the thunk's own record, then the record of the map's caller
      [IF e = NoError THEN S ELSE fail(S, t, e)
         EXCEPT !.task[t].st = IF e = NoError THEN "done" ELSE "failed",
                !.task[t].err = e,
                !.task[t].res = IF e = NoError THEN thunk(item(t[Len(t)]))
                                ELSE @,
                !.task[Parent(t)].order = Append(@, t[Len(t)])]

\* The results of a map in the order its items completed.
results_as_completed(S, t) ==
    [k \in 1..Len(S.task[t].order) |->
        S.task[Append(t, S.task[t].order[k])].res]

\* The results of a map: the i-th is the result of the i-th item.
results(S, t) == [i \in 1..MaxItems |-> S.task[Append(t, i)].res]

\* The map thunk t waits in is over: it raises Cancelled after a cancel,
\* the first failure of its items if there is one, and returns the results
\* otherwise.
map_return(S, t) ==
    IF S.cancel THEN complete(drop(S, Unstarted(S, t)), t, Cancelled)
    ELSE IF S.task[t].first # NoError THEN complete(S, t, S.task[t].first)
    ELSE [S EXCEPT !.task[t].st = "running", !.task[t].called = TRUE,
                   !.task[t].got = results(S, t)]

\* The map of thunk t can come to its end: no item is under way, and none
\* waits in the queue unless the cancel keeps it there.
MapOver(S, t) ==
    /\ S.task[t].st = "waiting"
    /\ Underway(S, t) = {}
    /\ S.cancel \/ Unstarted(S, t) = {}

\* The thunk worker w runs or waits in.
Top(S, w) == S.stack[w][Len(S.stack[w])]

Pop(S, w) ==
    [S EXCEPT !.stack[w] = SubSeq(@, 1, Len(@) - 1)]

\* A worker that takes thunks from the queue only when it has none.
CanTakeWhenIdle(S, w) == S.stack[w] = <<>>

\* Worker w may take a thunk from the queue: it is idle, or the thunk it
\* runs waits for the items of its map.
CanTake(S, w) ==
    IF S.stack[w] = <<>> THEN TRUE ELSE S.task[Top(S, w)].st = "waiting"

\* A suspension point that does not look at the cancel flag.
Unchecked(S) == FALSE

\* The check of the cancel flag at a suspension point.
Checked(S) == S.cancel

\* ---------------------------------------------------------------------------
\* fbuild.scheduler: map_with_dependencies(deps_of, f, items).

\* The number of items of a call of map_with_dependencies.
MaxDepItems == 3

DepItems == 1..MaxDepItems

\* The items x depends on, over at most k + 1 steps of deps_of.
RECURSIVE reach(_, _, _)
reach(deps_of, x, k) ==
    IF k = 0 THEN deps_of[x]
    ELSE reach(deps_of, x, k - 1) \cup
         UNION {deps_of[y] : y \in reach(deps_of, x, k - 1)}

\* A call that sees no cycle in any dependency function.
no_cycle_seen(deps_of) == FALSE

\* deps_of has a cycle: an item depends on itself, over some steps.
has_cycle(deps_of) ==
    \E x \in DepItems : x \in reach(deps_of, x, MaxDepItems)

\* The items to enqueue: those not yet enqueued whose dependencies have
\* all completed.
ready(deps_of, st) ==
    {x \in DepItems :
        st[x] = "pending" /\ \A y \in deps_of[x] : st[y] = "done"}

enqueue(deps_of, st) ==
    [x \in DepItems |->
        IF x \in ready(deps_of, st) THEN "queued" ELSE st[x]]

NoDeps ==
    [pc |-> "off", deps_of |-> [x \in DepItems |-> {}],
     st |-> [x \in DepItems |-> "pending"]]


\* ------------------------------------------------------------------------
\* The C builder (lib/fbuild/builders/c/__init__.py): build_objects scans
\* the sources, registers what the scans found, and compiles the sources;
\* _build_link links the objects build_objects returns.

\* The sources of the build, in the order they are passed in.
Sources == <<"a.c", "b.c">>
Items == 1..Len(Sources)

\* Builder.scan(src): the files the source depends on.
scan(src) == IF src = "a.c" THEN <<"h.h">> ELSE <<>>

\* Builder.compile(src): the object of the source.
compile(src) == IF src = "a.c" THEN "a.o" ELSE "b.o"

\* The results of a map, the i-th for the i-th source.
Objects == [i \in Items |-> compile(Sources[i])]

\* deps.extend(d) for every d of the scans, in the order of the sources.
RECURSIVE extend(_, _)
extend(scanned, i) ==
    IF i > Len(scanned) THEN <<>>
    ELSE scanned[i] \o extend(scanned, i + 1)

\* An item of a map raises: the items of the map that have not started
\* are cancelled.
item_fails(st, i) ==
    [j \in Items |-> IF j = i THEN "failed"
                     ELSE IF st[j] = "queued" THEN "cancelled"
                     ELSE st[j]]

\* The map is over: no item waits in the queue and none is under way.
map_over(st) == \A i \in Items : st[i] \notin {"queued", "running"}

\* The map raises instead of returning: an item of it raised.
map_raises(st) == \E i \in Items : st[i] \in {"failed", "cancelled"}

\* The number of items under way on the pool.
ItemsUnderway(b) ==
    Cardinality({i \in Items : b.scans[i] = "running"
                                 \/ b.compiles[i] = "running"})

NoBuild ==
    [pc |-> "idle",
     scans |-> [i \in Items |-> "none"],
     scanned |-> [i \in Items |-> <<>>],
     deps |-> <<>>, registered |-> FALSE,
     compiles |-> [i \in Items |-> "none"],
     returned |-> FALSE, objs |-> <<>>, hit |-> FALSE,
     link |-> "none", outcome |-> "-",
     recorded |-> FALSE, builds |-> 0]

InitAux ==
    /\ obs = [f \in Paths |-> NotObserved]
    /\ db_lock = 0
    /\ job = [t \in Workers |-> NoJob]
    /\ path_lock = [f \in Paths |-> 0]
    /\ ob = [o \in Workers |-> NoOb]
    /\ state_file = NoStateFile
    /\ run = FirstRun
    /\ handler = "default_int_handler"
    /\ drv = NoDriver
    /\ exe = NoCommand
    /\ sch = NoSched
    /\ dm = NoDeps
    /\ bld = NoBuild

\* The build starts at time 0 on sources just written, with no state file.
InitWith(threads) ==
    /\ now = 0
    /\ fs = [f \in Paths |->
                IF f \in SrcPaths
                THEN [exists |-> TRUE, content |-> 1, mtime |-> 0]
                ELSE Missing]
    /\ curDigest = "v1"
    /\ files = [f \in Paths |-> NoFile]
    /\ functions = EmptyTables.functions
    /\ calls = {}
    /\ call_files = {}
    /\ external_srcs = {}
    /\ external_dsts = {}
    /\ nextId = 0
    /\ inv = [t \in threads |-> Idle]
    /\ edits = 0
    /\ edited_at = 0
    /\ started = 0
    /\ InitAux

\* What the body of the call a thread is running may register.
Registers(t) == {{}, ExtSrcsOf(inv[t].bound)}

Init == InitWith({1})

Next ==
    \/ \E t \in Threads, f \in FunNames, d \in FunDigests, b \in Bounds :
           Invoke(t, f, d, b)
    \/ \E t \in Threads : \E S \in Registers(t) :
           BodySucceed(t, S, IF S = {} THEN {} ELSE ExtDstsOf(inv[t].bound))
    \/ \E t \in Threads : \E S \in Registers(t) : BodyFail(t, S)
    \/ Tick
    \/ \E f \in SrcPaths, c \in Contents : WriteFile(f, c)
    \/ \E f \in SrcPaths, c \in Contents : WriteKeepMtime(f, c)
    \/ \E f \in SrcPaths : RemoveFile(f)

\* One thread: memoized calls run one after the other.
Spec == Init /\ [][Next]_vars

\* ------------------------------------------------------------------------
\* The decision of the dirtiness detector.

\* The tuple Backend.prepare returns in this state for the call
\* fun_name(bound) with the function digest fun_digest.
Decision(fun_name, fun_digest, bound) ==
    prepare(Tables, files, fs, now, fun_name, fun_digest, bound,
            SrcsOf(bound), DstsOf(bound))

\* The declared sources of a call, as a set.
DeclaredSrcs(bound) == {SrcsOf(bound)[i] : i \in 1..Len(SrcsOf(bound))}

\* The sources prepare looks at for a call: the declared ones and the
\* external ones recorded for the call.
SourcesOf(fun_name, bound) ==
    DeclaredSrcs(bound)
        \cup find_external_srcs(Tables, find_call(Tables, fun_name,
                                                  bound).call_id, fun_name)

\* A source can be stat'd and the digest an observation of it returns now
\* is the one recorded for the call.
MatchesRecord(fun_name, bound, src) ==
    /\ fs[src].exists
    /\ add_file(files, fs, now, src).digest =
           find_call_file(Tables, find_call(Tables, fun_name, bound).call_id,
                          fun_name, src)

\* The function digest is the recorded one, the call is recorded, every
\* source matches its record and every external source can be stat'd.
AllRecorded(fun_name, fun_digest, bound) ==
    /\ find_function(Tables, fun_name) = fun_digest
    /\ find_call(Tables, fun_name, bound).call_id # None
    /\ \A src \in SourcesOf(fun_name, bound) :
           MatchesRecord(fun_name, bound, src)

\* C1 as stated: prepare yields a cache hit exactly when the function digest
\* equals the recorded one, a call record exists, every declared and
\* external source's newly observed digest equals the digest recorded for
\* the call, and every external source can be stat'd.
C1_HitIffAllRecorded ==
    \A f \in FunNames, d \in FunDigests, b \in Bounds :
        Hit(Decision(f, d, b)) <=> AllRecorded(f, d, b)

\* C1 amended: prepare yields a cache hit exactly when, in addition, the
\* observation of no source reports the file changed against the file
\* table.
C1_HitIffAllRecordedAndUnchanged ==
    \A f \in FunNames, d \in FunDigests, b \in Bounds :
        Hit(Decision(f, d, b)) <=>
            /\ AllRecorded(f, d, b)
            /\ \A src \in SourcesOf(f, b) :
                   ~add_file(files, fs, now, src).dirty

\* C1 witness: a call with a declared and an external source has been
\* answered from the cache.
C1_Witness ==
    /\ inv[1].pc = "done"
    /\ inv[1].outcome = "hit"
    /\ inv[1].bound = "x"
    /\ find_external_srcs(Tables, inv[1].final_id, inv[1].fun) # {}

\* ------------------------------------------------------------------------
\* Two calls in a row.

\* The call a thread made last ran its body to success and was recorded,
\* and no file was edited since its prepare step.
RecordedUntouched(t) ==
    /\ inv[t].pc = "done"
    /\ inv[t].outcome = "cached"
    /\ ~inv[t].touched

\* C2 as stated (idempotence): whenever a call ran to success and was
\* recorded by Backend.cache, and no file was mutated since, the same call
\* made again is a cache hit, whatever the database held before the first
\* call.
C2_SecondCallHits ==
    \A t \in Threads :
        RecordedUntouched(t) =>
            Hit(Decision(inv[t].fun, inv[t].fun_digest, inv[t].bound))

\* ------------------------------------------------------------------------
\* Sensitivity to the declared sources.

\* The call f(bound) is recorded with a digest for its declared source src,
\* and src now holds other bytes than the recorded ones.
ChangedSinceRecorded(fun_name, bound, src) ==
    LET call_id == find_call(Tables, fun_name, bound).call_id
    IN  /\ call_id # None
        /\ find_call_file(Tables, call_id, fun_name, src) # None
        /\ fs[src].exists
        /\ Digest(fs[src].content) #
               find_call_file(Tables, call_id, fun_name, src)

\* The next call observes src as dirty and misses.
ObservedDirty(fun_name, fun_digest, bound, src) ==
    LET p == Decision(fun_name, fun_digest, bound)
    IN  /\ \E i \in 1..Len(p.call_file_digests) :
               p.call_file_digests[i] = <<src, Digest(fs[src].content)>>
        /\ ~Hit(p)

\* The fast path of add_file applies to src: its mtime is the one in the
\* file table and lies more than a second back.
TrustedMtime(src) ==
    /\ files[src].mtime # None
    /\ fs[src].mtime = files[src].mtime
    /\ now - fs[src].mtime > FastPathAge

\* C3 as stated (source-sensitivity): when the content of a declared source
\* of a recorded call was changed to other bytes, even with its mtime left
\* as recorded, and more than a second has elapsed since, the next call
\* observes the source as dirty and misses.
C3_ChangedSourceMissesAfterASecond ==
    \A f \in FunNames, d \in FunDigests, b \in Bounds :
        \A src \in DeclaredSrcs(b) :
            ChangedSinceRecorded(f, b, src) /\ now - edited_at > FastPathAge
                => ObservedDirty(f, d, b, src)

\* C3 amended: when the content of a declared source of a recorded call was
\* changed to other bytes, the next call observes the source as dirty and
\* misses unless the source's mtime equals the one in the file table and
\* lies more than a second back.
C3_ChangedSourceMissesUnlessMtimeTrusted ==
    \A f \in FunNames, d \in FunDigests, b \in Bounds :
        \A src \in DeclaredSrcs(b) :
            ChangedSinceRecorded(f, b, src) /\ ~TrustedMtime(src)
                => ObservedDirty(f, d, b, src)

\* C3 witness: a recorded call was made again after its declared source was
\* rewritten with the mtime it had, and it found the source dirty.
C3_Witness ==
    /\ inv[1].pc = "running"
    /\ inv[1].bound = "x"
    /\ inv[1].call_id # None
    /\ ~inv[1].fun_dirty
    /\ inv[1].call_file_digests = <<<<"a.c", Digest(2)>>>>
    /\ fs["a.c"] = [exists |-> TRUE, content |-> 2, mtime |-> 0]
    /\ find_call_file(inv[1].pre, inv[1].call_id, "compile", "a.c")
           = Digest(1)

\* ------------------------------------------------------------------------
\* The function's digest.

\* C4 (function-digest cascade): a result is returned as a hit only when
\* it was computed by the function body whose digest the call is made
\* with; so once the digest differs from the recorded one, no call recorded
\* under the old digest is answered from the cache, whichever calls were
\* made again before it and however they ended.  (The result of a call
\* stands for the digest of the body that computed it.)
C4_HitOnlyOnResultOfThisDigest ==
    /\ \A f \in FunNames, d \in FunDigests, b \in Bounds :
           Hit(Decision(f, d, b)) => Decision(f, d, b).old_result = d
    /\ \A t \in Threads :
           inv[t].outcome = "hit" => inv[t].result = inv[t].fun_digest

\* C4 witness: two calls were recorded, the digest changed and one call was
\* recorded again under the new digest; the other call, made next, found no
\* record of itself and runs its body.
C4_Witness ==
    /\ nextId = 2
    /\ functions["compile"] = "v2"
    /\ inv[1].pc = "running"
    /\ inv[1].fun_digest = "v2"
    /\ ~inv[1].fun_dirty
    /\ inv[1].call_id = None
    /\ inv[1].call_file_digests = <<>>
    /\ inv[1].external_digests = {}

\* ------------------------------------------------------------------------
\* Calls made from several threads.

\* Every backend operation is atomic, but the wrapper holds nothing between
\* prepare and cache: the calls of two threads interleave.
InitConc == InitWith({1, 2})

NextConc ==
    \/ \E t \in Threads, f \in FunNames, d \in FunDigests, b \in Bounds :
           Invoke(t, f, d, b)
    \/ \E t \in Threads : \E S \in Registers(t) :
           BodySucceed(t, S, IF S = {} THEN {} ELSE ExtDstsOf(inv[t].bound))
    \/ \E t \in Threads : \E S \in Registers(t) : BodyFail(t, S)

SpecConc == InitConc /\ [][NextConc]_vars

\* C5 as stated: in every reachable state, under any interleaving of calls
\* with the same function name and bound arguments, at most one call id is
\* live for a (function name, bound) pair.
C5_OneLiveCallId ==
    \A c1 \in calls, c2 \in calls :
        c1.fun = c2.fun /\ c1.bound = c2.bound => c1.id = c2.id

\* ------------------------------------------------------------------------
\* A body that fails.

\* The call a thread made last ran its body, and the body raised.
Failed(t) == inv[t].pc = "done" /\ inv[t].outcome = "failed"

\* The same call made again now is answered from the cache.
HitsAgain(t) == Hit(Decision(inv[t].fun, inv[t].fun_digest, inv[t].bound))

\* The call of thread t missed for one reason only: add_file reported a
\* source changed against the file table, while every digest prepare
\* returned as dirty is the digest the call has on record.
MissedOnFileTableOnly(t) ==
    /\ ~inv[t].fun_dirty
    /\ inv[t].call_id # None
    /\ ~inv[t].external_dirty
    /\ \A i \in 1..Len(inv[t].call_file_digests) :
           find_call_file(inv[t].pre, inv[t].call_id, inv[t].fun,
                          inv[t].call_file_digests[i][1])
               = inv[t].call_file_digests[i][2]
    /\ \A e \in inv[t].external_digests :
           find_call_file(inv[t].pre, inv[t].call_id, inv[t].fun, e[1])
               = e[2]

\* C6 as stated: when the body of a memoized call fails, the function,
\* call, call-file and external-deps tables are as they were before the
\* call, and the same call made next (no file edited meanwhile) is a miss
\* again.
C6_FailurePersistsNothingAndMissesAgain ==
    \A t \in Threads :
        Failed(t) =>
            /\ Tables = inv[t].pre
            /\ ~inv[t].touched => ~HitsAgain(t)

\* C6 amended: when the body of a memoized call fails, the tables are as
\* they were before the call; the same call made next (no file edited
\* meanwhile) is a miss again unless the failed call had missed only on
\* add_file reporting a source changed against the file table.
C6_FailurePersistsNothingInTheTables ==
    \A t \in Threads :
        Failed(t) =>
            /\ Tables = inv[t].pre
            /\ ~inv[t].touched /\ ~MissedOnFileTableOnly(t) => ~HitsAgain(t)

\* C6 witness: a recorded call was made again after its source changed, its
\* body failed, and the call made once more would miss.
C6_Witness ==
    /\ Failed(1)
    /\ ~inv[1].touched
    /\ inv[1].call_id # None
    /\ inv[1].call_file_digests # <<>>
    /\ ~MissedOnFileTableOnly(1)
    /\ Tables = inv[1].pre
    /\ ~HitsAgain(1)

\* ------------------------------------------------------------------------
\* What a successful call records.

\* C7 as stated: after every successful memoized call, each declared source
\* of the call has a call-file record under the call's final id whose
\* digest is the one prepare observed for it.
C7_DeclaredSourcesRecorded ==
    \A t \in Threads :
        inv[t].pc = "done" /\ inv[t].outcome = "cached" =>
            \A i \in 1..Len(inv[t].observed) :
                find_call_file(Tables, inv[t].final_id, inv[t].fun,
                               inv[t].observed[i][1])
                    = inv[t].observed[i][2]

\* ------------------------------------------------------------------------
\* External dependencies.

\* The next call reports the external source src in its external dirty
\* digests and misses.
ReportedExternalDirty(fun_name, fun_digest, bound, src) ==
    /\ <<src, Digest(fs[src].content)>>
           \in Decision(fun_name, fun_digest, bound).external_digests
    /\ ~Hit(Decision(fun_name, fun_digest, bound))

\* The external sources recorded for the call f(bound).
RecordedExternalSrcs(fun_name, bound) ==
    find_external_srcs(Tables, find_call(Tables, fun_name, bound).call_id,
                       fun_name)

\* Every declared source of the call can be stat'd: prepare returns.
Preparable(bound) == \A s \in DeclaredSrcs(bound) : fs[s].exists

\* C8 as stated: when a call registered an external source while it ran
\* and succeeded, and the content of that source was mutated since, the
\* next call with the same arguments reports the source in its external
\* dirty digests and misses.  (Stated for the calls prepare returns from.)
C8_MutatedExternalSourceMisses ==
    \A f \in FunNames, d \in FunDigests, b \in Bounds :
        \A src \in RecordedExternalSrcs(f, b) :
            ChangedSinceRecorded(f, b, src) /\ Preparable(b)
                => ReportedExternalDirty(f, d, b, src)

\* C8 amended: the next call reports the mutated external source and misses
\* when every declared source of the call can be stat'd, and unless the
\* external source's mtime equals the one in the file table and lies more
\* than a second back.
C8_MutatedExternalSourceMissesUnlessMtimeTrusted ==
    \A f \in FunNames, d \in FunDigests, b \in Bounds :
        \A src \in RecordedExternalSrcs(f, b) :
            ChangedSinceRecorded(f, b, src) /\ Preparable(b)
                /\ ~TrustedMtime(src)
                => ReportedExternalDirty(f, d, b, src)

\* C8 witness: a call that had registered h.h was made again after h.h was
\* rewritten; its declared source is clean and h.h is reported dirty.
C8_Witness ==
    /\ inv[1].pc = "running"
    /\ inv[1].bound = "x"
    /\ inv[1].call_id # None
    /\ ~inv[1].fun_dirty
    /\ inv[1].call_file_digests = <<>>
    /\ inv[1].external_srcs = {"h.h"}
    /\ inv[1].external_digests = {<<"h.h", Digest(2)>>}

\* C9: an external source that cannot be stat'd does not abort the check:
\* prepare returns, external_dirty is true, the call is a miss, and every
\* other external source is still observed and, when dirty, collected.
C9_MissingExternalSourceDoesNotAbort ==
    \A f \in FunNames, d \in FunDigests, b \in Bounds :
        (/\ Preparable(b)
         /\ \E s \in RecordedExternalSrcs(f, b) : ~fs[s].exists)
        => /\ ~Decision(f, d, b).err
           /\ Decision(f, d, b).external_dirty
           /\ ~Hit(Decision(f, d, b))
           /\ \A s \in RecordedExternalSrcs(f, b) :
                  fs[s].exists =>
                      \A c \in {check_call_file(Tables, files, fs, now,
                                  find_call(Tables, f, b).call_id, f, s)} :
                          /\ Decision(f, d, b).files[s] = c.files[s]
                          /\ c.files[s].mtime = fs[s].mtime
                          /\ c.dirty => <<s, c.digest>> \in
                                 Decision(f, d, b).external_digests

\* C9 witness: a call with two recorded external sources was made again
\* with one of them removed and the other rewritten.
C9_Witness ==
    /\ inv[1].pc = "running"
    /\ inv[1].bound = "y"
    /\ inv[1].call_id # None
    /\ inv[1].external_srcs = {"a.c", "h.h"}
    /\ inv[1].external_dirty
    /\ inv[1].external_digests # {}
    /\ \E s \in {"a.c", "h.h"} : ~fs[s].exists

\* ------------------------------------------------------------------------
\* Destinations.

\* The states a destination file can be in when it exists.
DstStates ==
    {[exists |-> TRUE, content |-> c, mtime |-> now] : c \in Contents}

\* The hit-or-miss decision in the tuple prepare returns.
DecisionOf(p) ==
    <<p.err, p.fun_dirty, p.call_id, p.call_file_digests,
      p.external_digests, p.external_dirty>>

\* C10: destinations never influence the decision: in two file systems that
\* differ only in the existence or content of a declared or external
\* destination, prepare returns the same fun_dirty, call_id, dirty digests
\* and external_dirty, whether or not the destination is declared.
C10_DestinationsDoNotDecide ==
    \A f \in FunNames, d \in FunDigests, b \in Bounds :
        \A decision \in {DecisionOf(Decision(f, d, b))} :
            \A dst \in DstPaths, st \in DstStates \cup {Missing} :
                /\ DecisionOf(prepare(Tables, files,
                                      [fs EXCEPT ![dst] = st], now,
                                      f, d, b, SrcsOf(b), DstsOf(b)))
                       = decision
                /\ DecisionOf(prepare(Tables, files,
                                      [fs EXCEPT ![dst] = st], now,
                                      f, d, b, SrcsOf(b), <<dst>>))
                       = decision

\* C10 witness: a call that registered the destination a.o was answered
\* from the cache while a.o does not exist.
C10_Witness ==
    /\ inv[1].pc = "done"
    /\ inv[1].outcome = "hit"
    /\ inv[1].bound = "y"
    /\ "a.o" \in find_external_dsts(Tables, inv[1].final_id, inv[1].fun)
    /\ ~fs["a.o"].exists

\* ------------------------------------------------------------------------
\* The fast path of add_file.

\* The file table holds a record of the file whose mtime is the file's.
SameMtimeRecorded(f) ==
    /\ fs[f].exists
    /\ files[f].mtime # None
    /\ fs[f].mtime = files[f].mtime

\* The answer of the fast path: not changed, the mtime, the recorded digest,
\* the file not read and the file table as it was.
FastAnswer(f) ==
    [err |-> FALSE, dirty |-> FALSE, mtime |-> fs[f].mtime,
     digest |-> files[f].digest, files |-> files, read |-> FALSE]

C12_SlowPathRecordsTheObservation ==
    \A f \in Paths : fs[f].exists =>
        \A a \in {add_file(files, fs, now, f)} : a.read =>
            /\ a.dirty <=> (files[f] = NoFile
                              \/ Digest(fs[f].content) # files[f].digest)
            /\ a.digest = Digest(fs[f].content)
            /\ a.mtime = fs[f].mtime
            /\ a.files[f] = [mtime |-> fs[f].mtime,
                             digest |-> Digest(fs[f].content)]
            /\ \A g \in Paths \ {f} : a.files[g] = files[g]

\* The slow path is taken for a recorded file whose content changed, and
\* for a recorded file whose content is the recorded one under a new mtime.
C12_Witness ==
    /\ \E f \in Paths : /\ fs[f].exists /\ files[f] # NoFile
                        /\ add_file(files, fs, now, f).read
                        /\ add_file(files, fs, now, f).dirty
    /\ \E f \in Paths : /\ fs[f].exists /\ files[f] # NoFile
                        /\ fs[f].mtime # files[f].mtime
                        /\ add_file(files, fs, now, f).read
                        /\ ~add_file(files, fs, now, f).dirty

\* ------------------------------------------------------------------------
\* Observations of files on their own: add_file called again and again on
\* files that are written, with the time of the write as their mtime, and
\* removed.  Times are whole seconds, the resolution of the mtime.

\* The record of an observation of file_name that answered a: the file as
\* it was observed, the answer, and how many observations in a row found
\* the file in this state (1, or 2 for two or more) with the digest the
\* previous one of them returned.
Observed(o, file, a) ==
    [count |-> IF o.count > 0 /\ o.file = file /\ ~o.err /\ ~a.err
               THEN 2 ELSE 1,
     file |-> file, err |-> a.err, dirty |-> a.dirty, digest |-> a.digest,
     read |-> a.read,
     prev |-> IF o.count > 0 /\ o.file = file /\ ~o.err /\ ~a.err
              THEN o.digest ELSE None]

\* Backend.add_file(file_name), called on its own.
Observe(file_name) ==
    /\ \E a \in {add_file(files, fs, now, file_name)} :
           /\ files' = a.files
           /\ obs' = [obs EXCEPT
                        ![file_name] = Observed(@, fs[file_name], a)]
    /\ UNCHANGED <<now, fs, curDigest, dbvars, inv, edits, edited_at,
                   started, db_lock, job, path_lock, ob, ctxvars,
                   sidevars>>

NextObserve ==
    \/ \E f \in SrcPaths : Observe(f)
    \/ Tick
    \/ \E f \in SrcPaths, c \in Contents : WriteFile(f, c)
    \/ \E f \in SrcPaths : RemoveFile(f)

SpecObserve == Init /\ [][NextObserve]_vars

\* The last observation of f answered on the fast path and f is as it was
\* then.
AnsweredFast(f) ==
    /\ obs[f].count > 0
    /\ ~obs[f].err
    /\ ~obs[f].read
    /\ obs[f].file = fs[f]

\* C13: when every write stamps the file with the time of the write, in
\* whole seconds, a digest add_file returns on its fast path is the digest
\* of the content the file has.
C13_FastPathDigestIsCurrent ==
    \A f \in SrcPaths :
        AnsweredFast(f) => obs[f].digest = Digest(fs[f].content)

\* C14: of the observations made in a row of a file that exists and is not
\* modified, every one after the first reports the file unchanged and
\* returns the digest the one before it returned.
C14_OnlyFirstObservationChanged ==
    \A f \in SrcPaths :
        obs[f].count = 2 => ~obs[f].dirty /\ obs[f].digest = obs[f].prev

\* A file was observed (at least) twice in a row unmodified, reading it
\* the last time, and another on the fast path the last time.
C14_Witness ==
    /\ \E f \in SrcPaths : obs[f].count = 2 /\ obs[f].read
    /\ \E f \in SrcPaths : obs[f].count = 2 /\ ~obs[f].read

\* ------------------------------------------------------------------------
\* Files that cannot be stat'd.

\* C15: add_file on a path whose mtime cannot be read fails and leaves the
\* file table as it was, the previous record of the path included; prepare
\* on a call with such a declared source raises instead of returning its
\* tuple, leaving that record as it was.
C15_UnreadableSourceRaises ==
    /\ \A f \in Paths : ~fs[f].exists =>
           \A a \in {add_file(files, fs, now, f)} :
               a.err /\ a.files = files
    /\ \A fn \in FunNames, d \in FunDigests, b \in Bounds :
           \A s \in DeclaredSrcs(b) : ~fs[s].exists =>
               \A p \in {Decision(fn, d, b)} :
                   p.err /\ p.files[s] = files[s]

\* A memoized call raised out of its prepare step on a declared source that
\* was removed after it had been recorded in the file table.
C15_Witness ==
    /\ inv[1].pc = "done"
    /\ inv[1].outcome = "error"
    /\ \E s \in DeclaredSrcs(inv[1].bound) :
           ~fs[s].exists /\ files[s] # NoFile

\* ------------------------------------------------------------------------
\* Backend.cache step by step.  Backend.cache is four calls of storage
\* primitives one after the other; the database serializes the operations
\* of its threads on the backend with a mutex, held for the whole of a
\* prepare and the whole of a cache.

\* The backend taken without waiting for the mutex.
LockIgnored == TRUE

\* The database's mutex is free.
LockFree == db_lock = 0

\* No other thread is in the middle of its Backend.cache.
Alone(t) == \A u \in Workers \ {t} : job[u].step = 0

\* The call tables become those of T.
TablesBecome(T) ==
    /\ functions' = T.functions
    /\ calls' = T.calls
    /\ call_files' = T.call_files
    /\ external_srcs' = T.external_srcs
    /\ external_dsts' = T.external_dsts
    /\ nextId' = T.nextId

\* A memoized call starts: the wrapper takes the mutex for Backend.prepare.
LockedInvoke(t, fun_name, fun_digest, bound) ==
    /\ LockFree
    /\ inv[t].pc # "caching"
    /\ Invoke(t, fun_name, fun_digest, bound)

\* The body of a call ran to its end, registering the external sources srcs
\* and destinations dsts: the wrapper takes the mutex and enters
\* Backend.cache.
CacheBegin(t, srcs, dsts) ==
    /\ inv[t].pc = "running"
    /\ LockFree
    /\ \E i \in {inv[t]} :
       \E r \in {register_srcs(Tables, files, fs, now, i.call_id, i.fun,
                               srcs, i.external_digests)} :
           /\ ~r.err
           /\ i.call_id = None => nextId < MaxCallId
           /\ files' = observe_dsts(r.files, fs, now, DstsOf(i.bound), 1)
           /\ job' = [job EXCEPT ![t] =
                  [step |-> 1, T0 |-> Tables, srcs |-> srcs, dsts |-> dsts,
                   digests |-> r.digests, call_id |-> i.call_id,
                   atomic |-> Alone(t)]]
    /\ db_lock' = t
    /\ inv' = [inv EXCEPT ![t].pc = "caching"]
    /\ UNCHANGED <<now, fs, curDigest, dbvars, edits, edited_at, started,
                   obs, path_lock, ob, ctxvars,
                   sidevars>>

\* if fun_dirty: self.save_function(fun_name, fun_digest)
CacheSaveFunction(t) ==
    /\ job[t].step = 1
    /\ TablesBecome(IF inv[t].fun_dirty
                    THEN save_function(Tables, inv[t].fun, inv[t].fun_digest)
                    ELSE Tables)
    /\ job' = [job EXCEPT ![t].step = 2, ![t].atomic = @ /\ Alone(t)]
    /\ UNCHANGED <<now, fs, curDigest, files, inv, edits, edited_at,
                   started, obs, db_lock, path_lock, ob, ctxvars,
                   sidevars>>

\* call_id = self.save_call(fun_name, call_id, bound, result)
CacheSaveCall(t) ==
    /\ job[t].step = 2
    /\ \E s \in {save_call(Tables, inv[t].fun, job[t].call_id, inv[t].bound,
                           inv[t].fun_digest)} :
           /\ TablesBecome(s.T)
           /\ job' = [job EXCEPT ![t].step = 3, ![t].call_id = s.call_id,
                                 ![t].atomic = @ /\ Alone(t)]
    /\ UNCHANGED <<now, fs, curDigest, files, inv, edits, edited_at,
                   started, obs, db_lock, path_lock, ob, ctxvars,
                   sidevars>>

\* self.save_call_files(call_id, fun_name, call_file_digests)
CacheSaveCallFiles(t) ==
    /\ job[t].step = 3
    /\ TablesBecome(save_call_files(Tables, job[t].call_id, inv[t].fun,
                                    inv[t].call_file_digests))
    /\ job' = [job EXCEPT ![t].step = 4, ![t].atomic = @ /\ Alone(t)]
    /\ UNCHANGED <<now, fs, curDigest, files, inv, edits, edited_at,
                   started, obs, db_lock, path_lock, ob, ctxvars,
                   sidevars>>

\* self.save_external_files(...); Backend.cache returns and the wrapper
\* releases the mutex.  atomic: no other cache was under way at any step,
\* and the tables are those Backend.cache makes in one go of the tables it
\* started on.
CacheSaveExternalFiles(t) ==
    /\ job[t].step = 4
    /\ \E i \in {inv[t]} :
       \E T4 \in {save_external_files(Tables, i.fun, job[t].call_id,
                                      job[t].srcs, job[t].dsts,
                                      job[t].digests)} :
       \E c \in {cache(job[t].T0, i.fun_dirty, i.fun, i.fun_digest,
                       i.call_id, i.bound, i.fun_digest,
                       i.call_file_digests, job[t].srcs, job[t].dsts,
                       job[t].digests)} :
           /\ TablesBecome(T4)
           /\ job' = [job EXCEPT ![t] =
                  [NoJob EXCEPT !.call_id = job[t].call_id,
                                !.atomic = /\ job[t].atomic
                                           /\ Alone(t)
                                           /\ T4 = c.T
                                           /\ job[t].call_id = c.call_id]]
           /\ inv' = [inv EXCEPT ![t] =
                  [Idle EXCEPT !.pc = "done", !.outcome = "cached",
                               !.fun = i.fun, !.bound = i.bound,
                               !.fun_digest = i.fun_digest,
                               !.observed = i.observed,
                               !.touched = i.touched,
                               !.result = i.fun_digest,
                               !.final_id = job[t].call_id]]
    /\ db_lock' = 0
    /\ UNCHANGED <<now, fs, curDigest, files, edits, edited_at, started,
                   obs, path_lock, ob, ctxvars,
                   sidevars>>

NextCache ==
    \/ \E t \in Threads, f \in FunNames, d \in FunDigests, b \in Bounds :
           LockedInvoke(t, f, d, b)
    \/ \E t \in Threads : \E S \in Registers(t) :
           CacheBegin(t, S, IF S = {} THEN {} ELSE ExtDstsOf(inv[t].bound))
    \/ \E t \in Threads : CacheSaveFunction(t)
    \/ \E t \in Threads : CacheSaveCall(t)
    \/ \E t \in Threads : CacheSaveCallFiles(t)
    \/ \E t \in Threads : CacheSaveExternalFiles(t)
    \/ \E t \in Threads : \E S \in Registers(t) : BodyFail(t, S)

\* Two threads whose calls of Backend.cache run step by step.
SpecCache == InitConc /\ [][NextCache]_vars

PathAlwaysFree(file_name) == TRUE

\* No observer holds the path.
PathFree(file_name) == path_lock[file_name] = 0

\* No observation is under way.
Quiet == \A o \in Workers : ob[o].pc \in {"idle", "done"}

\* What add_file, run in one go now with the clock reading time, answers
\* and leaves in the file table.
InOneGo(file_name, time) == add_file(files, fs, time, file_name)

\* An observer calls add_file(file_name).  unchanged: the path has a record
\* and its content is the recorded one.
ObStart(o, file_name) ==
    /\ ob[o].pc \in {"idle", "done"}
    /\ PathFree(file_name)
    /\ path_lock' = [path_lock EXCEPT ![file_name] = o]
    /\ ob' = [ob EXCEPT ![o] =
           [NoOb EXCEPT !.pc = "stat", !.file = file_name,
                        !.unchanged =
                            /\ fs[file_name].exists
                            /\ files[file_name] # NoFile
                            /\ files[file_name].digest =
                                   Digest(fs[file_name].content)]]
    /\ UNCHANGED <<now, fs, curDigest, files, dbvars, inv, edits, edited_at,
                   started, obs, db_lock, job, ctxvars,
                   sidevars>>

\* The observer returns (or raises): it lets go of the path.
Return(o, err, dirty, digest, serial) ==
    /\ ob' = [ob EXCEPT ![o].pc = "done", ![o].err = err, ![o].dirty = dirty,
                        ![o].digest = digest, ![o].serial = serial]
    /\ path_lock' = [path_lock EXCEPT ![ob[o].file] = 0]

\* mtime = fbuild.path.Path(file_name).getmtime()
ObStat(o) ==
    /\ ob[o].pc = "stat"
    /\ IF ~fs[ob[o].file].exists
       THEN Return(o, TRUE, FALSE, None, InOneGo(ob[o].file, now).err)
       ELSE /\ ob' = [ob EXCEPT ![o].pc = "find",
                                ![o].mtime = fs[ob[o].file].mtime]
            /\ UNCHANGED path_lock
    /\ UNCHANGED <<now, fs, curDigest, files, dbvars, inv, edits, edited_at,
                   started, obs, db_lock, job, ctxvars,
                   sidevars>>

\* old_mtime, old_digest = self.find_file(file_name)
ObFind(o) ==
    /\ ob[o].pc = "find"
    /\ ob' = [ob EXCEPT ![o].pc = "compare",
                        ![o].old = find_file(files, ob[o].file)]
    /\ UNCHANGED <<now, fs, curDigest, files, dbvars, inv, edits, edited_at,
                   started, obs, db_lock, job, path_lock, ctxvars,
                   sidevars>>

\* if old_mtime is not None: if mtime == old_mtime and
\* time.time() - mtime > 1.0: return False, mtime, old_digest
ObCompare(o) ==
    /\ ob[o].pc = "compare"
    /\ IF /\ ob[o].old.mtime # None
          /\ ob[o].mtime = ob[o].old.mtime
          /\ now - ob[o].mtime > FastPathAge
       THEN \E a \in {InOneGo(ob[o].file, now)} :
                Return(o, FALSE, FALSE, ob[o].old.digest,
                       /\ files[ob[o].file] = ob[o].old
                       /\ ~a.err /\ ~a.dirty /\ a.digest = ob[o].old.digest
                       /\ a.files[ob[o].file] = files[ob[o].file])
       ELSE /\ ob' = [ob EXCEPT ![o].pc = "digest", ![o].time = now]
            /\ UNCHANGED path_lock
    /\ UNCHANGED <<now, fs, curDigest, files, dbvars, inv, edits, edited_at,
                   started, obs, db_lock, job, ctxvars,
                   sidevars>>

\* digest = fbuild.path.Path.digest(file_name)
ObDigest(o) ==
    /\ ob[o].pc = "digest"
    /\ ob' = [ob EXCEPT ![o].pc = "write", ![o].read = TRUE,
                        ![o].digest = Digest(fs[ob[o].file].content)]
    /\ UNCHANGED <<now, fs, curDigest, files, dbvars, inv, edits, edited_at,
                   started, obs, db_lock, job, path_lock, ctxvars,
                   sidevars>>

\* if digest == old_digest: self.save_file(file_name, mtime, digest);
\* return False, mtime, digest.  Otherwise self.delete_file(file_name).
ObWrite(o) ==
    /\ ob[o].pc = "write"
    /\ \E a \in {InOneGo(ob[o].file, ob[o].time)} :
       IF ob[o].digest = ob[o].old.digest
       THEN /\ files' = save_file(files, ob[o].file, ob[o].mtime,
                                  ob[o].digest)
            /\ Return(o, FALSE, FALSE, ob[o].digest,
                      /\ files[ob[o].file] = ob[o].old
                      /\ ~a.err /\ ~a.dirty /\ a.digest = ob[o].digest
                      /\ a.files[ob[o].file] = files'[ob[o].file])
       ELSE /\ files' = delete_file(files, ob[o].file)
            /\ ob' = [ob EXCEPT ![o].pc = "save", ![o].expect = a.files[ob[o].file],
                                ![o].serial = /\ files[ob[o].file] = ob[o].old
                                              /\ ~a.err /\ a.dirty
                                              /\ a.digest = ob[o].digest]
            /\ UNCHANGED path_lock
    /\ UNCHANGED <<now, fs, curDigest, dbvars, inv, edits, edited_at,
                   started, obs, db_lock, job, ctxvars,
                   sidevars>>

\* self.save_file(file_name, mtime, digest); return True, mtime, digest
ObSave(o) ==
    /\ ob[o].pc = "save"
    /\ files' = save_file(files, ob[o].file, ob[o].mtime, ob[o].digest)
    /\ Return(o, FALSE, TRUE, ob[o].digest,
              /\ ob[o].serial
              /\ files[ob[o].file] = NoFile
              /\ files'[ob[o].file] = ob[o].expect)
    /\ UNCHANGED <<now, fs, curDigest, dbvars, inv, edits, edited_at,
                   started, obs, db_lock, job, ctxvars,
                   sidevars>>

NextObservers ==
    \/ \E o \in Workers, f \in SrcPaths : ObStart(o, f)
    \/ \E o \in Workers : ObStat(o)
    \/ \E o \in Workers : ObFind(o)
    \/ \E o \in Workers : ObCompare(o)
    \/ \E o \in Workers : ObDigest(o)
    \/ \E o \in Workers : ObWrite(o)
    \/ \E o \in Workers : ObSave(o)
    \/ Tick
    \/ \E f \in SrcPaths, c \in Contents : Quiet /\ WriteFile(f, c)
    \/ \E f \in SrcPaths : Quiet /\ RemoveFile(f)

SpecObservers == Init /\ [][NextObservers]_vars

MaxRuns == 2            \* runs of the build in one behaviour

\* db.close: the state file the database writes, its call tables and its
\* file table.
Snapshot(T, F) == [exists |-> TRUE, T |-> T, F |-> F]

\* db.connect: the tables of the state file, empty ones without a file.
connect(sf) ==
    IF sf.exists THEN [T |-> sf.T, F |-> sf.F]
    ELSE [T |-> EmptyTables, F |-> NoFiles]

\* load_configuration that connects to the old state file before it removes
\* it.
load_configuration_connect_first(sf, force_rebuild, force_configuration) ==
    [state_file |-> IF (force_rebuild \/ force_configuration) /\ sf.exists
                    THEN NoStateFile ELSE sf,
     db |-> connect(sf)]

\* load_configuration that removes the state file whatever the options.
load_configuration_always_fresh(sf, force_rebuild, force_configuration) ==
    [state_file |-> NoStateFile, db |-> connect(NoStateFile)]

\* Context.load_configuration: the state file it leaves and the tables the
\* database is connected to.
load_configuration(sf, force_rebuild, force_configuration) ==
    The({[state_file |-> sf1, db |-> connect(sf1)]
         : sf1 \in {IF (force_rebuild \/ force_configuration) /\ sf.exists
                    THEN NoStateFile ELSE sf}})

\* main of bin/fbuild.py: the old database is loaded when the build is not
\* reconfiguring and the state file exists; the file stays.
main_load(sf, force_configuration) ==
    [state_file |-> sf,
     db |-> IF ~force_configuration /\ sf.exists
            THEN connect(sf) ELSE connect(NoStateFile)]

\* The build is running.
Up == run.phase = "up"

\* No build is running and another is to come: time passes and the sources
\* are edited between the runs.
Off == run.phase = "off" /\ run.n < MaxRuns

\* The build script has returned: no memoized call is in flight.
BuildOver == Up /\ \A t \in Threads : inv[t].pc # "running"

\* The calls prepare answers from the cache in this state.
HitEligible ==
    {e \in FunNames \X FunDigests \X Bounds : Hit(Decision(e[1], e[2], e[3]))}

\* A run starts on what load left: the tables, no call in flight, Python's
\* handler installed for SIGINT.
StartRun(driver, force, l) ==
    /\ run.phase = "off"
    /\ run.n < MaxRuns
    /\ state_file' = l.state_file
    /\ TablesBecome(l.db.T)
    /\ files' = l.db.F
    /\ inv' = [t \in Threads |-> Idle]
    /\ handler' = "default_int_handler"
    /\ run' = [run EXCEPT !.phase = "up", !.driver = driver, !.n = @ + 1,
                          !.force = force,
                          !.loaded = ~force /\ state_file.exists,
                          !.discarded = force /\ state_file.exists,
                          !.started0 = started, !.prev_handler = "-",
                          !.ignored = FALSE, !.interrupted = FALSE,
                          !.raised = FALSE]
    /\ UNCHANGED <<now, fs, curDigest, edits, edited_at, started, obs,
                   db_lock, job, path_lock, ob,
                   sidevars>>

\* A run of the build starts: Context.load_configuration.
Load(force_rebuild, force_configuration) ==
    StartRun("context", force_rebuild \/ force_configuration,
             load_configuration(state_file, force_rebuild,
                                force_configuration))

\* A run of bin/fbuild.py starts.
MainLoad(force_configuration) ==
    StartRun("main", force_configuration,
             main_load(state_file, force_configuration))

\* The handler save_configuration leaves SIGINT to while the database
\* closes, kept as it was.
HandlerKept(prev) == prev

\* signal.signal(signal.SIGINT, signal.SIG_IGN)
HandlerWhileSaving(prev) == "SIG_IGN"

\* Context.save_configuration, up to db.close: with do_not_save_database
\* nothing is saved; otherwise SIGINT is ignored from here on.
SaveBegin(do_not_save_database) ==
    /\ BuildOver
    /\ run.driver = "context"
    /\ IF do_not_save_database
       THEN /\ run' = [run EXCEPT !.phase = "off", !.saved = FALSE,
                                  !.eligible = {},
                                  !.fs_at_save = FirstRun.fs_at_save]
            /\ UNCHANGED handler
       ELSE /\ run' = [run EXCEPT !.phase = "closing",
                                  !.prev_handler = handler]
            /\ handler' = HandlerWhileSaving(handler)
    /\ UNCHANGED <<now, fs, curDigest, files, dbvars, inv, edits, edited_at,
                   started, obs, db_lock, job, path_lock, ob, state_file,
                   sidevars>>

\* self.db.close(): the database writes the state file, or raises and
\* leaves it.
Close(ok) ==
    /\ run.phase = "closing"
    /\ state_file' = IF ok THEN Snapshot(Tables, files) ELSE state_file
    /\ run' = [run EXCEPT !.phase = "restoring", !.raised = ~ok,
                          !.saved = ok,
                          !.eligible = IF ok THEN HitEligible ELSE {},
                          !.fs_at_save = IF ok THEN fs
                                         ELSE FirstRun.fs_at_save]
    /\ UNCHANGED <<now, fs, curDigest, files, dbvars, inv, edits, edited_at,
                   started, obs, db_lock, job, path_lock, ob, handler,
                   sidevars>>

\* finally: signal.signal(signal.SIGINT, prev_handler)
Restore ==
    /\ run.phase = "restoring"
    /\ handler' = run.prev_handler
    /\ run' = [run EXCEPT !.phase = "off"]
    /\ UNCHANGED <<now, fs, curDigest, files, dbvars, inv, edits, edited_at,
                   started, obs, db_lock, job, path_lock, ob, state_file,
                   sidevars>>

\* SIGINT arrives while the database closes: SIG_IGN drops it; any other
\* handler interrupts db.close, which leaves the state file unwritten.
Sigint ==
    /\ run.phase = "closing"
    /\ IF handler = "SIG_IGN"
       THEN run' = [run EXCEPT !.ignored = TRUE]
       ELSE run' = [run EXCEPT !.phase = "restoring", !.interrupted = TRUE,
                               !.saved = FALSE, !.eligible = {},
                               !.fs_at_save = FirstRun.fs_at_save]
    /\ UNCHANGED <<now, fs, curDigest, files, dbvars, inv, edits, edited_at,
                   started, obs, db_lock, job, path_lock, ob, state_file,
                   handler,
                   sidevars>>

\* main's finally: fbuild.db.database.save(options.state_file)
MainSave ==
    /\ BuildOver
    /\ run.driver = "main"
    /\ state_file' = Snapshot(Tables, files)
    /\ run' = [run EXCEPT !.phase = "off", !.saved = TRUE,
                          !.eligible = HitEligible, !.fs_at_save = fs]
    /\ UNCHANGED <<now, fs, curDigest, files, dbvars, inv, edits, edited_at,
                   started, obs, db_lock, job, path_lock, ob, handler,
                   sidevars>>

NextRuns ==
    \/ \E t \in Threads, f \in FunNames, b \in Bounds :
           Up /\ Invoke(t, f, curDigest, b)
    \/ \E t \in Threads : \E S \in Registers(t) :
           Up /\ BodySucceed(t, S,
                             IF S = {} THEN {} ELSE ExtDstsOf(inv[t].bound))
    \/ \E t \in Threads : \E S \in Registers(t) : Up /\ BodyFail(t, S)
    \/ Off /\ Tick
    \/ \E f \in SrcPaths, c \in Contents : Off /\ WriteFile(f, c)
    \/ \E r \in BOOLEAN, c \in BOOLEAN : Load(r, c)
    \/ \E c \in BOOLEAN : MainLoad(c)
    \/ \E o \in BOOLEAN : SaveBegin(o)
    \/ \E ok \in BOOLEAN : Close(ok)
    \/ Restore
    \/ Sigint
    \/ MainSave

\* Runs of one build script, whose functions stay as they are.
SpecRuns == Init /\ [][NextRuns]_vars

\* No call has started in this run.
Fresh == Up /\ started = run.started0

C19_SaveMasksSigint ==
    /\ ~run.interrupted
    /\ run.phase = "closing" => handler = "SIG_IGN"
    /\ (run.phase = "off" /\ run.prev_handler # "-") =>
           handler = run.prev_handler /\ handler = "default_int_handler"

\* save_configuration is over: a SIGINT arrived while the database was
\* closing and was ignored, db.close raised, and Python's handler is
\* installed again.
C19_Witness ==
    /\ run.phase = "off"
    /\ run.ignored
    /\ run.raised
    /\ run.prev_handler = "default_int_handler"
    /\ handler = "default_int_handler"

\* C20: a run started with --configure or with force_rebuild starts on
\* empty tables, whatever the state file held (Context removes the file
\* before it connects), so that prepare answers no call from the cache and
\* the first call of the run is a miss; a run started without them on an
\* existing state file starts on the tables of the file.
C20_ForcedRunStartsEmpty ==
    /\ (Fresh /\ run.force) =>
           /\ Tables = EmptyTables
           /\ files = NoFiles
           /\ HitEligible = {}
           /\ run.driver = "context" => ~state_file.exists
    /\ (Up /\ run.force /\ started = run.started0 + 1) =>
           \A t \in Threads : inv[t].outcome # "hit"
    /\ (Fresh /\ ~run.force /\ run.n > 1 /\ state_file.exists) =>
           Tables = state_file.T /\ files = state_file.F

\* The run before saved a state file with a call answered from the cache;
\* the build is run again with the state discarded, on the same files, and
\* that call misses.
C20_Witness ==
    /\ Up /\ run.force /\ run.discarded
    /\ run.driver = "context"
    /\ started = run.started0 + 1
    /\ run.saved /\ fs = run.fs_at_save
    /\ inv[1].pc = "running"
    /\ \E e \in run.eligible : e[3] = inv[1].bound /\ e[2] = inv[1].fun_digest

\* ------------------------------------------------------------------------
\* What a prepare step writes.

\* C30: the step in which a memoized call is prepared leaves the function,
\* call, call-file and external tables as they were (only the file table
\* may change), and a call answered from the cache returns the result
\* stored in its call record.
C30_HitReturnsStoredResultAndWritesNoTable ==
    [][started' # started =>
           /\ UNCHANGED dbvars
           /\ \A t \in Threads :
                  (inv'[t] # inv[t] /\ inv'[t].outcome = "hit") =>
                      /\ inv'[t].result # NoDigest
                      /\ inv'[t].result =
                             find_call(Tables, inv'[t].fun,
                                       inv'[t].bound).result]_vars

\* A call was answered from the cache with the result of its record, by a
\* prepare that wrote the file table: the mtime recorded for a source is
\* newer than the digest's first record.
C30_Witness ==
    /\ inv[1].pc = "done"
    /\ inv[1].outcome = "hit"
    /\ inv[1].result = find_call(Tables, inv[1].fun, inv[1].bound).result
    /\ inv[1].result # NoDigest
    /\ \E f \in SrcPaths : files[f] # NoFile /\ files[f].mtime > 0

\* ---------------------------------------------------------------------------
\* The runs of bin/fbuild.py.

\* main runs up to its try block: the options are parsed and the database
\* of the last run is loaded.
DriverStart(options) ==
    /\ drv.pc \in {"off", "exit"}
    /\ drv' = [NoDriver EXCEPT !.pc = "try", !.options = options,
                               !.state = drv.state,
                               !.database = database_load(options, drv.state),
                               !.before = database_load(options, drv.state)]
    /\ UNCHANGED <<corevars, exe, sch, dm, bld>>

\* The try block of main and its except clause.
DriverTry(outcome, built) ==
    /\ drv.pc = "try"
    /\ \E r \in {main_try(drv.options, drv.database, outcome, built)} :
           drv' = [drv EXCEPT !.pc = "finally",
                              !.raised = r.exc,
                              !.exc = main_except(r).exc,
                              !.returned = main_except(r).returned,
                              !.status = main_except(r).status,
                              !.database = main_except(r).database]
    /\ UNCHANGED <<corevars, exe, sch, dm, bld>>

\* A finally clause that leaves the state file as it was.
main_finally_without_save(d) ==
    [d EXCEPT !.pc = "exit", !.returned = d.exc = "none"]

\* finally: fbuild.db.database.save(options.state_file); then the
\* exception leaves main, or main returns the status of its return
\* statement, or reaches its last line, return 0.
main_finally(d) ==
    [d EXCEPT !.pc = "exit", !.state = database_save(d.database),
              !.saves = @ + 1, !.returned = d.exc = "none"]

DriverFinally ==
    /\ drv.pc = "finally"
    /\ drv' = main_finally(drv)
    /\ UNCHANGED <<corevars, exe, sch, dm, bld>>

NextMain ==
    \/ \E options \in Options : DriverStart(options)
    \/ \E outcome \in BuildOutcomes, built \in Databases :
           DriverTry(outcome, built)
    \/ DriverFinally

SpecMain == Init /\ [][NextMain]_vars

\* ---------------------------------------------------------------------------
\* C21: when main is over, it has returned status 1 exactly when the action
\* asked for (the configuration query, the configuration removal or the
\* build of the user's script) raised an fbuild.Error, and it has returned
\* status 0 whenever the action raised nothing.
C21_StatusOneIffErrorRaised ==
    drv.pc = "exit" =>
        /\ (drv.returned /\ drv.status = 1) <=> drv.raised = "fbuild.Error"
        /\ drv.raised = "none" => drv.returned /\ drv.status = 0

\* A removal of a key the database does not have has ended with status 1,
\* after a build that ended with status 0 has saved a database.
C21_Witness ==
    /\ drv.pc = "exit"
    /\ drv.options.config_remove /\ ~drv.options.config_query
    /\ ~drv.options.config_dump
    /\ drv.raised = "fbuild.Error" /\ drv.returned /\ drv.status = 1
    /\ drv.before # {}

\* ---------------------------------------------------------------------------
\* C22: on every way out of main behind the loading of the database (the
\* build succeeded, an fbuild.Error was raised, another exception was
\* raised, a config action returned early) the database was saved exactly
\* once: no save happens before the finally clause, and when main has
\* returned or an exception has left it, one save has written the database
\* as the action left it.
C22_SavedOnceOnEveryExit ==
    /\ drv.pc \in {"try", "finally"} => drv.saves = 0
    /\ drv.pc = "exit" =>
           /\ drv.saves = 1
           /\ drv.state = database_save(drv.database)

\* An exception that is no fbuild.Error has left main, behind the save of
\* the database the build had filled.
C22_Witness ==
    /\ drv.pc = "exit"
    /\ drv.raised = "Exception" /\ drv.exc = "Exception" /\ ~drv.returned
    /\ drv.saves = 1
    /\ drv.state.exists /\ drv.state.database = drv.database
    /\ drv.database # {} /\ drv.database # drv.before

\* ---------------------------------------------------------------------------
\* C23: --config-remove with the keys k1 ... kn of an entry of the database
\* deletes that entry with all below it and nothing else, and the state
\* file holds the database without it; when the database has no entry at
\* k1 ... kn, the database and the state file keep every entry and the
\* driver exits with status 1.
C23_RemoveDeletesExactlyThePath ==
    (/\ drv.pc = "exit"
     /\ drv.options.config_remove
     /\ ~drv.options.config_query /\ ~drv.options.config_dump
     /\ drv.options.keys # <<>>) =>
        IF Has(drv.before, drv.options.keys)
        THEN /\ drv.database =
                    {e \in drv.before : ~IsPrefix(drv.options.keys, e.path)}
             /\ drv.state = database_save(drv.database)
             /\ exit_status(drv) = 0
        ELSE /\ drv.database = drv.before
             /\ drv.state = database_save(drv.before)
             /\ exit_status(drv) = 1

\* A removal has deleted a nested entry and left its sibling.
C23_Witness ==
    /\ drv.pc = "exit"
    /\ drv.options.config_remove
    /\ ~drv.options.config_query /\ ~drv.options.config_dump
    /\ Len(drv.options.keys) = 2
    /\ Has(drv.before, drv.options.keys)
    /\ ~Has(drv.database, drv.options.keys)
    /\ \E e \in drv.database :
           Len(e.path) = 2 /\ e.path[1] = drv.options.keys[1]
    /\ drv.state.database = drv.database

\* ---------------------------------------------------------------------------
\* The steps of Context.execute.

\* execute is called: the command string, the environment, the messages,
\* and timed_out = False when there is a timeout.
ExecuteStart(timeout, ignore_error) ==
    /\ exe.pc \in {"off", "done"}
    /\ exe' = [NoCommand EXCEPT !.pc = "Popen", !.timeout = timeout,
                                !.ignore_error = ignore_error]
    /\ UNCHANGED <<corevars, drv, sch, dm, bld>>

\* fbuild.subprocess.killableprocess.Popen(cmd, ...): the process starts,
\* and with it the timer of the timeout; or Popen raises OSError, which is
\* logged and raised again.
Popen(ok) ==
    /\ exe.pc = "Popen"
    /\ exe' = IF ok
              THEN [exe EXCEPT !.pc = "communicate", !.spawned = TRUE,
                               !.timer = IF exe.timeout THEN "started"
                                         ELSE "None"]
              ELSE [exe EXCEPT !.pc = "done", !.outcome = "OSError"]
    /\ UNCHANGED <<corevars, drv, sch, dm, bld>>

\* timeout_function: the timer fires, before it is cancelled; late when
\* p.wait() has returned already.
TimerFires ==
    /\ exe.pc \in {"communicate", "waited"}
    /\ exe.timer = "started"
    /\ exe' = [exe EXCEPT !.timer = "fired", !.timed_out = TRUE,
                          !.killed = TRUE, !.late = exe.pc = "waited"]
    /\ UNCHANGED <<corevars, drv, sch, dm, bld>>

\* KeyboardInterrupt inside scheduler.interruptible(): the process is
\* killed, the exception raised again; finally cancels the timer.
Interrupt ==
    /\ exe.pc = "communicate"
    /\ exe' = except_KeyboardInterrupt(exe)
    /\ UNCHANGED <<corevars, drv, sch, dm, bld>>

\* p.communicate(input) and p.wait() return.
Wait(returncode) ==
    /\ exe.pc = "communicate"
    /\ exe' = [exe EXCEPT !.pc = "waited", !.waited = TRUE,
                          !.returncode = returncode]
    /\ UNCHANGED <<corevars, drv, sch, dm, bld>>

\* The else clause raises KeyboardInterrupt for a process that SIGINT
\* ended; finally cancels the timer; the output is logged; the end of
\* execute raises or returns.
ExecuteEnd ==
    /\ exe.pc = "waited"
    /\ exe' = [exe EXCEPT
                 !.pc = "done",
                 !.timer = IF @ = "started" THEN "cancelled" ELSE @,
                 !.outcome = IF exe.returncode = 0 - SIGINT
                             THEN "KeyboardInterrupt"
                             ELSE execute_end(exe.timeout, exe.timed_out,
                                              exe.returncode,
                                              exe.ignore_error)]
    /\ UNCHANGED <<corevars, drv, sch, dm, bld>>

NextExecute ==
    \/ \E timeout \in BOOLEAN, ignore_error \in BOOLEAN :
           ExecuteStart(timeout, ignore_error)
    \/ \E ok \in BOOLEAN : Popen(ok)
    \/ TimerFires
    \/ Interrupt
    \/ \E returncode \in ReturnCodes : Wait(returncode)
    \/ ExecuteEnd

SpecExecute == Init /\ [][NextExecute]_vars

\* ---------------------------------------------------------------------------
\* C29 as the specification states it: execute returns only for a process
\* that exited with code zero within its deadline; every other exit code
\* ends in ExecutionError, an exceeded deadline in ExecutionTimedOut
\* whatever the exit code, and a process that could not be started in an
\* error of the executor's own kind, SpawnError.
C29_ReturnsOnlyOnZeroExit ==
    exe.pc = "done" =>
        /\ exe.outcome = "return" => exe.returncode = 0 /\ ~exe.timed_out
        /\ (exe.waited /\ exe.returncode # 0 /\ ~exe.timed_out) =>
               exe.outcome = "ExecutionError"
        /\ (exe.waited /\ exe.timed_out) =>
               exe.outcome = "ExecutionTimedOut"
        /\ ~exe.spawned => exe.outcome = "SpawnError"

\* C29, as the code has it: execute returns only for a process that was
\* not killed by its timeout and that exited with code zero or was run
\* with ignore_error; a process SIGINT ended raises KeyboardInterrupt; of
\* the others, one whose timeout fired ends in ExecutionTimedOut whatever
\* its exit code, one with a non-zero exit code and no ignore_error in
\* ExecutionError; a process that could not be started ends in the OSError
\* of Popen.
C29_ExecuteOutcomes ==
    exe.pc = "done" =>
        /\ exe.outcome = "return" =>
               /\ exe.spawned /\ exe.waited /\ ~exe.timed_out
               /\ exe.returncode = 0 \/ exe.ignore_error
        /\ (exe.waited /\ exe.returncode = 0 - SIGINT) =>
               exe.outcome = "KeyboardInterrupt"
        /\ (exe.waited /\ exe.returncode # 0 - SIGINT /\ exe.timed_out) =>
               exe.outcome = "ExecutionTimedOut"
        /\ (/\ exe.waited /\ ~exe.timed_out /\ ~exe.ignore_error
            /\ exe.returncode \notin {0, 0 - SIGINT}) =>
               exe.outcome = "ExecutionError"
        /\ ~exe.spawned => exe.outcome = "OSError"

\* A process whose timeout fired and that exited with a non-zero code has
\* ended in ExecutionTimedOut.
C29_Witness ==
    /\ exe.pc = "done" /\ exe.waited /\ exe.timed_out
    /\ exe.returncode \notin {0, 0 - SIGINT} /\ ~exe.ignore_error
    /\ exe.outcome = "ExecutionTimedOut"

\* ---------------------------------------------------------------------------
\* The steps of the scheduler.

\* The build, on the main thread, calls map and waits for its items.
MainMap ==
    /\ sch.task[Root].st = "none"
    /\ sch' = map_call(sch, Root)
    /\ UNCHANGED <<corevars, drv, exe, dm, bld>>

\* Worker w takes the thunk at the head of the queue and runs it; after a
\* cancel no thunk is started.
Take(w) ==
    /\ sch.queue # <<>>
    /\ CanTake(sch, w)
    /\ ~sch.cancel
    /\ sch' = [sch EXCEPT !.task[Head(sch.queue)].st = "running",
                          !.queue = Tail(@),
                          !.stack[w] = Append(@, Head(sch.queue))]
    /\ UNCHANGED <<corevars, drv, exe, dm, bld>>

\* The thunk worker w runs calls map: it raises Cancelled after a cancel,
\* and else hands its items to the queue and waits for them.
CallMap(w) ==
    /\ sch.stack[w] # <<>>
    /\ sch.task[Top(sch, w)].st = "running"
    /\ ~sch.task[Top(sch, w)].called
    /\ Len(Top(sch, w)) < MaxDepth
    /\ sch' = IF Checked(sch)
              THEN Pop(complete(sch, Top(sch, w), Cancelled), w)
              ELSE map_call(sch, Top(sch, w))
    /\ UNCHANGED <<corevars, drv, exe, dm, bld>>

\* The thunk worker w runs calls the executor: it raises Cancelled after a
\* cancel, and else waits for its process inside interruptible().
ExecuteBegin(w) ==
    /\ sch.stack[w] # <<>>
    /\ sch.task[Top(sch, w)].st = "running"
    /\ ~sch.task[Top(sch, w)].called
    /\ Len(Top(sch, w)) = MaxDepth
    /\ sch' = IF Checked(sch)
              THEN Pop(complete(sch, Top(sch, w), Cancelled), w)
              ELSE [sch EXCEPT !.task[Top(sch, w)].st = "executing"]
    /\ UNCHANGED <<corevars, drv, exe, dm, bld>>

\* The process is over, or the cancel has ended the wait for it: the
\* scope of interruptible() raises Cancelled after a cancel.
ExecuteReturn(w) ==
    /\ sch.stack[w] # <<>>
    /\ sch.task[Top(sch, w)].st = "executing"
    /\ sch' = IF Checked(sch)
              THEN Pop(complete(sch, Top(sch, w), Cancelled), w)
              ELSE [sch EXCEPT !.task[Top(sch, w)].st = "running",
                               !.task[Top(sch, w)].called = TRUE]
    /\ UNCHANGED <<corevars, drv, exe, dm, bld>>

\* The thunk worker w runs returns its result, or raises.
Finish(w, ok) ==
    /\ sch.stack[w] # <<>>
    /\ sch.task[Top(sch, w)].st = "running"
    /\ sch' = Pop(complete(sch, Top(sch, w),
                           IF ok THEN NoError ELSE Top(sch, w)), w)
    /\ UNCHANGED <<corevars, drv, exe, dm, bld>>

\* The map the thunk of worker w waits in returns or raises.
MapReturn(w) ==
    /\ sch.stack[w] # <<>>
    /\ MapOver(sch, Top(sch, w))
    /\ \E S \in {map_return(sch, Top(sch, w))} :
           sch' = IF S.task[Top(sch, w)].st = "failed" THEN Pop(S, w)
                  ELSE S
    /\ UNCHANGED <<corevars, drv, exe, dm, bld>>

\* The map the build has called returns or raises, and the build is over.
MainReturn ==
    /\ MapOver(sch, Root)
    /\ \E S \in {map_return(sch, Root)} :
           sch' = IF S.task[Root].st = "failed" THEN S
                  ELSE complete(S, Root, NoError)
    /\ UNCHANGED <<corevars, drv, exe, dm, bld>>

\* The database is saved when the build is over, with the cancel signal
\* masked.
FinalSave ==
    /\ sch.task[Root].st \in {"done", "failed"}
    /\ ~sch.saved
    /\ sch' = [sch EXCEPT !.saved = TRUE]
    /\ UNCHANGED <<corevars, drv, exe, dm, bld>>

\* The user interrupts the build while the map of the build is under way.
Cancel ==
    /\ sch.task[Root].st = "waiting"
    /\ ~sch.cancel
    /\ sch' = [sch EXCEPT !.cancel = TRUE]
    /\ UNCHANGED <<corevars, drv, exe, dm, bld>>

NextSched ==
    \/ MainMap
    \/ \E w \in Pool : Take(w)
    \/ \E w \in Pool : CallMap(w)
    \/ \E w \in Pool : ExecuteBegin(w)
    \/ \E w \in Pool : ExecuteReturn(w)
    \/ \E w \in Pool, ok \in BOOLEAN : Finish(w, ok)
    \/ \E w \in Pool : MapReturn(w)
    \/ MainReturn
    \/ FinalSave

\* The threads of the pool and the main thread run on: a step that can be
\* taken is taken.
SpecSched == Init /\ [][NextSched]_vars /\ WF_vars(NextSched)

NextCancel == NextSched \/ Cancel

SpecCancel == Init /\ [][NextCancel]_vars /\ WF_vars(NextSched)

\* ---------------------------------------------------------------------------
\* C25: whatever the order in which the items of a map complete, the
\* sequence the map returns to its caller has one element per item, and
\* its i-th element is the result of f for the i-th item.
C25_MapResultsInInputOrder ==
    \A t \in Tasks :
        sch.task[t].got # <<>> =>
            /\ Len(sch.task[t].got) = MaxItems
            /\ \A i \in 1..MaxItems : sch.task[t].got[i] = thunk(item(i))

\* A map has returned whose second item completed before its first.
C25_Witness ==
    \E t \in Tasks :
        /\ sch.task[t].got # <<>>
        /\ sch.task[t].order[1] = 2
        /\ sch.task[t].got[1] = thunk(item(1))
        /\ sch.task[t].got[2] = thunk(item(2))

\* ---------------------------------------------------------------------------
\* Every worker runs a thunk that waits in a map, none of them can take a
\* thunk from the queue, and thunks wait in the queue.
AllWorkersBlocked ==
    /\ sch.queue # <<>>
    /\ \A w \in Pool :
           /\ sch.stack[w] # <<>>
           /\ sch.task[Top(sch, w)].st = "waiting"
           /\ ~CanTake(sch, w)

\* C24: maps called by thunks on the workers, nested as deep as MaxDepth
\* and with every worker occupied, never leave all workers waiting for
\* thunks in the queue that no worker can take, and every map call comes
\* to its end: a thunk that waits in a map does not wait forever.
C24_EveryMapReturns ==
    /\ []~AllWorkersBlocked
    /\ \A t \in {u \in Tasks : Len(u) < MaxDepth} :
           (sch.task[t].st = "waiting") ~> (sch.task[t].st # "waiting")

\* Every worker runs a thunk whose map waits for its items, and on top of
\* it a thunk it has taken from the queue in the meantime.
C24_Witness ==
    \A w \in Pool :
        /\ Len(sch.stack[w]) >= 2
        /\ sch.task[sch.stack[w][1]].st = "waiting"
        /\ sch.task[Top(sch, w)].st = "running"

\* ---------------------------------------------------------------------------
\* The exception of the item of thunk t's map that failed first.
FirstFailure(t) ==
    sch.task[Append(t, sch.task[t].order[
        CHOOSE k \in 1..Len(sch.task[t].order) :
            /\ sch.task[Append(t, sch.task[t].order[k])].st = "failed"
            /\ \A j \in 1..(k - 1) :
                   sch.task[Append(t, sch.task[t].order[j])].st # "failed"
        ])].err

\* An item of thunk t's map has failed.
SomeFailure(t) == \E u \in Children(t) : sch.task[u].st = "failed"

\* C26: when an item of a map raises, the map raises the exception of the
\* item that failed first and hands no result to its caller; from the
\* first failure on no item of that map is started, and the items that
\* run already are not stopped: they run until they return or raise.
C26_MapRaisesFirstFailure ==
    /\ [](\A t \in {u \in Tasks : Len(u) < MaxDepth} :
             /\ (sch.task[t].st \in {"running", "done"} /\
                 sch.task[t].called) => ~SomeFailure(t)
             /\ (sch.task[t].st # "waiting" /\ SomeFailure(t)) =>
                    /\ sch.task[t].st = "failed"
                    /\ sch.task[t].err = FirstFailure(t)
                    /\ sch.task[t].got = <<>>)
    /\ [][\A t \in Tasks \ {Root} :
             /\ (sch.task[t].st = "queued" /\ sch'.task[t].st = "running")
                    => ~SomeFailure(Parent(t))
             /\ sch.task[t].st \in {"running", "executing", "waiting"}
                    => sch'.task[t].st \in {"running", "executing",
                                            "waiting", "done", "failed"}
          ]_vars

\* A map has raised the failure of its first item; its second item never
\* started.
C26_Witness ==
    \E t \in Tasks :
        /\ Len(t) < MaxDepth
        /\ sch.task[t].st = "failed"
        /\ sch.task[Append(t, 1)].st = "failed"
        /\ sch.task[t].err = sch.task[Append(t, 1)].err
        /\ sch.task[Append(t, 2)].st = "cancelled"

\* ---------------------------------------------------------------------------
\* C28: after a cancel delivered while the map of the build is under way,
\* no thunk is started; a thunk that reaches a suspension point (it calls
\* map, calls the executor, waits inside interruptible() or waits in a map)
\* goes no further than that one point and unwinds with Cancelled; and in
\* the end every worker is free and the database is saved.
C28_CancelUnwindsAndSaves ==
    /\ [][sch.cancel =>
            \A t \in Tasks \ {Root} :
               /\ ~(sch.task[t].st = "queued" /\ sch'.task[t].st = "running")
               /\ sch.task[t].st = "running" =>
                      /\ sch'.task[t].st \in {"running", "done", "failed"}
                      /\ sch'.task[t].called = sch.task[t].called
               /\ (sch.task[t].st \in {"executing", "waiting"} /\
                   sch'.task[t].st # sch.task[t].st) =>
                      /\ sch'.task[t].st = "failed"
                      /\ sch'.task[t].err = Cancelled
          ]_vars
    /\ sch.cancel ~>
           (sch.saved /\ \A w \in Pool : sch.stack[w] = <<>>)

\* After a cancel the database is saved: the build has unwound with
\* Cancelled, and so have a thunk that waited in a map and a thunk that
\* called the executor; an item that had not started never ran.
C28_Witness ==
    /\ sch.cancel /\ sch.saved
    /\ sch.task[Root].st = "failed" /\ sch.task[Root].err = Cancelled
    /\ \A w \in Pool : sch.stack[w] = <<>>
    /\ \E t \in Tasks :
           /\ Len(t) = MaxDepth
           /\ sch.task[t].st = "failed" /\ sch.task[t].err = Cancelled
           /\ sch.task[Parent(t)].st = "failed"
           /\ sch.task[Parent(t)].err = Cancelled
    /\ \E t \in Tasks : sch.task[t].st = "cancelled"

\* ---------------------------------------------------------------------------
\* The steps of map_with_dependencies.

\* map_with_dependencies(deps_of, f, items) is called: a cycle in deps_of
\* is reported; without one, the items that depend on nothing join the
\* queue.
DepsCall(deps_of) ==
    /\ dm.pc \in {"off", "returned", "cycle"}
    /\ dm' = IF has_cycle(deps_of)
             THEN [NoDeps EXCEPT !.pc = "cycle", !.deps_of = deps_of]
             ELSE [NoDeps EXCEPT !.pc = "running", !.deps_of = deps_of,
                                 !.st = enqueue(deps_of, NoDeps.st)]
    /\ UNCHANGED <<corevars, drv, exe, sch, bld>>

\* A worker takes the thunk of item x from the queue and runs f(x).
DepsStart(x) ==
    /\ dm.pc = "running"
    /\ dm.st[x] = "queued"
    /\ Cardinality({y \in DepItems : dm.st[y] = "running"}) < PoolSize
    /\ dm' = [dm EXCEPT !.st[x] = "running"]
    /\ UNCHANGED <<corevars, drv, exe, sch, bld>>

\* f(x) completes: the items whose dependencies have now all completed
\* join the queue.
DepsFinish(x) ==
    /\ dm.pc = "running"
    /\ dm.st[x] = "running"
    /\ dm' = [dm EXCEPT !.st = enqueue(dm.deps_of, [@ EXCEPT ![x] = "done"])]
    /\ UNCHANGED <<corevars, drv, exe, sch, bld>>

\* Every item has completed: the call returns.
DepsReturn ==
    /\ dm.pc = "running"
    /\ \A x \in DepItems : dm.st[x] = "done"
    /\ dm' = [dm EXCEPT !.pc = "returned"]
    /\ UNCHANGED <<corevars, drv, exe, sch, bld>>

DepsStep ==
    \/ \E x \in DepItems : DepsStart(x)
    \/ \E x \in DepItems : DepsFinish(x)
    \/ DepsReturn

NextDeps ==
    \/ \E deps_of \in [DepItems -> SUBSET DepItems] : DepsCall(deps_of)
    \/ DepsStep

\* The workers run on: a thunk that can be taken or completed is, and a
\* call that can return does.
SpecDeps == Init /\ [][NextDeps]_vars /\ WF_vars(DepsStep)

\* ---------------------------------------------------------------------------
\* C27: in a call of map_with_dependencies, f(x) has started only when
\* f(y) has completed for every y in deps_of(x); a call whose deps_of has
\* a cycle reports the cycle, and every other call returns: no call
\* blocks forever.
C27_DependenciesFirstAndCyclesReported ==
    /\ [](\A x \in DepItems :
             dm.st[x] \in {"running", "done"} =>
                 \A y \in dm.deps_of[x] : dm.st[y] = "done")
    /\ [](dm.pc = "cycle" => has_cycle(dm.deps_of))
    /\ (dm.pc = "running") ~> (dm.pc = "returned")

\* A call has returned in which item 3 depended on item 2 and item 2 on
\* item 1.
C27_Witness ==
    /\ dm.pc = "returned"
    /\ dm.deps_of[2] = {1} /\ dm.deps_of[3] = {2}
    /\ \A x \in DepItems : dm.st[x] = "done"

\* ---------------------------------------------------------------------------
\* C33: execute raises ExecutionTimedOut only for a process the timer has
\* killed while execute still waited for it: a process execute has waited
\* for to its end is never reported as timed out.
C33_TimedOutOnlyWhenKilledRunning ==
    (exe.pc = "done" /\ exe.outcome = "ExecutionTimedOut") =>
        exe.timed_out /\ ~exe.late

\* ---------------------------------------------------------------------------
\* C34: a KeyboardInterrupt that arrives while execute waits for the
\* process leaves execute only after p.kill(group=True, sigint=True), and a
\* process that SIGINT ended leaves execute as KeyboardInterrupt, never as
\* ExecutionError, ExecutionTimedOut or a return.
C34_InterruptKillsThenPropagates ==
    exe.pc = "done" =>
        /\ (exe.spawned /\ ~exe.waited) =>
               exe.outcome = "KeyboardInterrupt" /\ exe.sigint_sent
        /\ (exe.waited /\ exe.returncode = 0 - SIGINT) =>
               exe.outcome = "KeyboardInterrupt"
        /\ (exe.outcome = "KeyboardInterrupt" /\ exe.waited) =>
               exe.returncode = 0 - SIGINT

\* An interrupt has ended the wait for a process whose timer ran: the
\* process was killed, the timer cancelled, the interrupt raised again.
C34_Witness ==
    /\ exe.pc = "done" /\ exe.spawned /\ ~exe.waited
    /\ exe.outcome = "KeyboardInterrupt"
    /\ exe.sigint_sent /\ exe.killed
    /\ exe.timer = "cancelled"

\* ---------------------------------------------------------------------------
\* The tuple r of prepare, or the call that keeps it, lists file p among
\* its dirty digests.
ReportedDirty(r, p) ==
    \/ \E i \in 1..Len(r.call_file_digests) : r.call_file_digests[i][1] = p
    \/ \E e \in r.external_digests : e[1] = p

\* The file table holds file p as it is now.
Refreshed(p) ==
    /\ fs[p].exists
    /\ files[p] # NoFile
    /\ files[p].mtime = fs[p].mtime
    /\ files[p].digest = Digest(fs[p].content)

\* The call fun_name(bound) has a record, looks at file p, and has for it
\* a digest on record that is not the one in the file table.
RecordedBeforeChange(fun_name, bound, p) ==
    /\ find_call(Tables, fun_name, bound).call_id # None
    /\ p \in SourcesOf(fun_name, bound)
    /\ find_call_file(Tables, find_call(Tables, fun_name, bound).call_id,
                      fun_name, p) \notin {None, files[p].digest}

\* C31: a change of a file is seen by every call that has the file on
\* record, not only by the first call to look at it: when the prepare of
\* one call has reported file p dirty and left the file table with p as it
\* is now, the prepare of another call that has p on record with the old
\* digest reports p dirty too and is no hit.
C31_EveryDependentCallSeesTheChange ==
    \A t \in Threads, fun_name \in FunNames, b \in Bounds, p \in SrcPaths :
        (/\ inv[t].pc \in {"running", "done"}
         /\ inv[t].bound # b
         /\ ReportedDirty(inv[t], p)
         /\ Refreshed(p)
         /\ RecordedBeforeChange(fun_name, b, p)) =>
            \A d \in {Decision(fun_name, curDigest, b)} :
                ~d.err => ~Hit(d) /\ ReportedDirty(d, p)

\* Calls x and y have recorded a.c with one digest; a.c was written anew;
\* the prepare of x has reported a.c dirty and refreshed the file table;
\* the prepare of y reports a.c dirty, for that reason alone.
C31_Witness ==
    /\ inv[1].pc = "running" /\ inv[1].bound = "x"
    /\ ReportedDirty(inv[1], "a.c")
    /\ Refreshed("a.c")
    /\ RecordedBeforeChange("compile", "y", "a.c")
    /\ find_call_file(Tables, find_call(Tables, "compile", "x").call_id,
                      "compile", "a.c")
         = find_call_file(Tables, find_call(Tables, "compile", "y").call_id,
                          "compile", "a.c")
    /\ ~Decision("compile", curDigest, "y").err
    /\ ~Decision("compile", curDigest, "y").fun_dirty
    /\ ~Decision("compile", curDigest, "y").external_dirty
    /\ ReportedDirty(Decision("compile", curDigest, "y"), "a.c")

\* ---------------------------------------------------------------------------
\* The call record a file record of function fun_name and call id id
\* belongs to.
OwnersOf(fun_name, id) == {c \in calls : c.fun = fun_name /\ c.id = id}

\* The file record r (a call file, an external source or an external
\* destination) refers to a live call, and find_call of that call gives
\* the call id of r.
Owned(r) ==
    /\ OwnersOf(r.fun, r.id) # {}
    /\ \A c \in OwnersOf(r.fun, r.id) :
           find_call(Tables, c.fun, c.bound).call_id = r.id

\* C32: referential integrity of the call tables.  In every state, every
\* call-file record and every external-deps record refers to a call id
\* with a live call record, and find_call of that call's function and
\* bound returns the call id the file records were saved under.
C32_ReferentialIntegrity ==
    \A r \in call_files \cup external_srcs \cup external_dsts : Owned(r)

\* ---------------------------------------------------------------------------
\* The C builder (lib/fbuild/builders/c/__init__.py): _build_link.

\* The number of builds a run makes.
MaxBuilds == 2

\* _build_link calls build_objects, a memoized method: with a call on
\* record the objects may come from the cache; otherwise the body runs
\* and maps scan over the sources.
BuildLink(hit) ==
    /\ bld.pc \in {"idle", "done"}
    /\ bld.builds < MaxBuilds
    /\ hit => bld.recorded
    /\ bld' = IF hit
              THEN [NoBuild EXCEPT !.pc = "objects", !.hit = TRUE,
                                   !.returned = TRUE, !.objs = Objects,
                                   !.recorded = TRUE,
                                   !.builds = bld.builds + 1]
              ELSE [NoBuild EXCEPT !.pc = "scanning",
                                   !.scans = [i \in Items |-> "queued"],
                                   !.recorded = bld.recorded,
                                   !.builds = bld.builds + 1]
    /\ UNCHANGED <<corevars, drv, exe, sch, dm>>

\* A thread of the pool takes the scan of a source from the queue.
ScanStart(i) ==
    /\ bld.pc = "scanning"
    /\ bld.scans[i] = "queued"
    /\ ItemsUnderway(bld) < PoolSize
    /\ bld' = [bld EXCEPT !.scans[i] = "running"]
    /\ UNCHANGED <<corevars, drv, exe, sch, dm>>

\* The scan of a source returns the files it depends on, or raises.
ScanEnd(i, ok) ==
    /\ bld.pc = "scanning"
    /\ bld.scans[i] = "running"
    /\ bld' = IF ok
              THEN [bld EXCEPT !.scans[i] = "done",
                               !.scanned[i] = scan(Sources[i])]
              ELSE [bld EXCEPT !.scans = item_fails(@, i)]
    /\ UNCHANGED <<corevars, drv, exe, sch, dm>>

\* The map of scan is over.  When it raises, build_objects raises and
\* nothing is recorded; otherwise build_objects collects the dependencies
\* in the order of the sources.
ScansReturn ==
    /\ bld.pc = "scanning"
    /\ map_over(bld.scans)
    /\ bld' = IF map_raises(bld.scans)
              THEN [bld EXCEPT !.pc = "done", !.outcome = "failed"]
              ELSE [bld EXCEPT !.pc = "collected",
                               !.deps = extend(bld.scanned, 1)]
    /\ UNCHANGED <<corevars, drv, exe, sch, dm>>

\* The map of compile over the sources without the dependencies being
\* registered for the call.
compile_unregistered(b, ok) ==
    [b EXCEPT !.pc = "compiling",
              !.compiles = [i \in Items |-> "queued"]]

\* The end of build_objects: the dependencies are registered for the
\* call, which raises for a file that cannot be read (ok is false), and
\* then compile is mapped over the sources.
register_then_compile(b, ok) ==
    IF ok
    THEN [b EXCEPT !.pc = "compiling", !.registered = TRUE,
                   !.compiles = [i \in Items |-> "queued"]]
    ELSE [b EXCEPT !.pc = "done", !.outcome = "failed"]

\* add_external_dependencies_to_call(srcs=deps), and then the map of
\* compile over the sources.
Register(ok) ==
    /\ bld.pc = "collected"
    /\ bld' = register_then_compile(bld, ok)
    /\ UNCHANGED <<corevars, drv, exe, sch, dm>>

\* A thread of the pool takes the compile of a source from the queue.
CompileStart(i) ==
    /\ bld.pc = "compiling"
    /\ bld.compiles[i] = "queued"
    /\ ItemsUnderway(bld) < PoolSize
    /\ bld' = [bld EXCEPT !.compiles[i] = "running"]
    /\ UNCHANGED <<corevars, drv, exe, sch, dm>>

\* The compile of a source returns its object, or raises.
CompileEnd(i, ok) ==
    /\ bld.pc = "compiling"
    /\ bld.compiles[i] = "running"
    /\ bld' = IF ok
              THEN [bld EXCEPT !.compiles[i] = "done"]
              ELSE [bld EXCEPT !.compiles = item_fails(@, i)]
    /\ UNCHANGED <<corevars, drv, exe, sch, dm>>

\* The map of compile is over.  When it raises, build_objects raises,
\* nothing is recorded and _build_link ends there; otherwise build_objects
\* returns the objects, which are recorded for the call.
CompilesReturn ==
    /\ bld.pc = "compiling"
    /\ map_over(bld.compiles)
    /\ bld' = IF map_raises(bld.compiles)
              THEN [bld EXCEPT !.pc = "done", !.outcome = "failed"]
              ELSE [bld EXCEPT !.pc = "objects", !.returned = TRUE,
                               !.objs = Objects, !.recorded = TRUE]
    /\ UNCHANGED <<corevars, drv, exe, sch, dm>>

\* function(dst, objs, ...): the link step starts on the objects
\* build_objects returned.
LinkStart ==
    /\ bld.pc = "objects"
    /\ bld' = [bld EXCEPT !.pc = "linking", !.link = "started"]
    /\ UNCHANGED <<corevars, drv, exe, sch, dm>>

\* The link step returns the library or the executable, or raises.
LinkEnd(ok) ==
    /\ bld.pc = "linking"
    /\ bld' = [bld EXCEPT !.pc = "done",
                          !.link = IF ok THEN "done" ELSE "failed",
                          !.outcome = IF ok THEN "linked" ELSE "failed"]
    /\ UNCHANGED <<corevars, drv, exe, sch, dm>>

NextBuild ==
    \/ \E hit \in BOOLEAN : BuildLink(hit)
    \/ \E i \in Items : ScanStart(i)
    \/ \E i \in Items, ok \in BOOLEAN : ScanEnd(i, ok)
    \/ ScansReturn
    \/ \E ok \in BOOLEAN : Register(ok)
    \/ \E i \in Items : CompileStart(i)
    \/ \E i \in Items, ok \in BOOLEAN : CompileEnd(i, ok)
    \/ CompilesReturn
    \/ LinkStart
    \/ \E ok \in BOOLEAN : LinkEnd(ok)

SpecBuild == Init /\ [][NextBuild]_vars

\* A compile of the build has started.
CompileStarted(i) == bld.compiles[i] \in {"running", "done", "failed"}

\* C35: in build_objects every scan of every source is over, and the
\* dependencies the scans found are registered as external dependencies
\* of the call, before the first compile starts; in _build_link the link
\* step starts only when build_objects has returned all the objects, and
\* it is not started when a compile failed.
C35_ScansThenCompilesThenLink ==
    /\ \A i \in Items :
           CompileStarted(i) =>
               /\ \A j \in Items : bld.scans[j] = "done"
               /\ bld.registered
               /\ bld.deps = extend([j \in Items |-> scan(Sources[j])], 1)
    /\ bld.link # "none" =>
           /\ bld.returned
           /\ bld.objs = Objects
           /\ \A i \in Items : bld.compiles[i] \in {"none", "done"}
    /\ (\E i \in Items : bld.compiles[i] \in {"failed", "cancelled"}) =>
           bld.link = "none" /\ ~bld.returned

\* The body of build_objects ran: both sources were scanned, h.h was
\* registered, both sources were compiled, and the link step has run on
\* the two objects.
C35_Witness ==
    /\ bld.pc = "done" /\ bld.link = "done" /\ ~bld.hit
    /\ \A i \in Items : bld.scans[i] = "done" /\ bld.compiles[i] = "done"
    /\ bld.registered /\ bld.deps = <<"h.h">>
    /\ bld.objs = <<"a.o", "b.o">>

====
